---- MODULE Spec2Model ----
(***************************************************************************)
(* Hotel-booking question answering: the keyword classifier, the           *)
(* per-category retrieval policies of BookingVectorStore, the memoized     *)
(* groupings, and QASystem.answer_question with its query cache and its    *)
(* query-history log.                                                      *)
(*                                                                         *)
(* Python strings are TLA+ strings; a character is a string of length 1.   *)
(* A value that may be None is None (the empty tuple) or Some(v).  A dict  *)
(* held by reference is an address <<generation, id>>; its mutable key     *)
(* 'relevance_score' lives in the variable relevance, so that two lists    *)
(* holding the same dict see the same score.                               *)
(***************************************************************************)
EXTENDS Integers, Sequences, FiniteSets, TLC

None == <<>>

Some(v) == <<v>>

IsNone(x) == Len(x) = 0

Val(x) == x[1]

Min(a, b) == IF a <= b THEN a ELSE b

Max(a, b) == IF a >= b THEN a ELSE b

(***************************************************************************)
(* Strings                                                                 *)
(***************************************************************************)

Char(s, i) == SubSeq(s, i, i)

UpperChars == "ABCDEFGHIJKLMNOPQRSTUVWXYZ"

LowerChars == "abcdefghijklmnopqrstuvwxyz"

DigitChars == "0123456789"

IsIn(c, alphabet) == \E i \in 1..Len(alphabet) : Char(alphabet, i) = c

\* str.lower() of one ASCII character
LowerChar(c) ==
    IF IsIn(c, UpperChars)
    THEN Char(LowerChars, CHOOSE i \in 1..Len(UpperChars) : Char(UpperChars, i) = c)
    ELSE c

\* the characters lo..hi of s, lowered (halving keeps the recursion shallow)
RECURSIVE LowerFrom(_, _, _)
LowerFrom(s, lo, hi) ==
    IF lo > hi THEN ""
    ELSE IF lo = hi THEN LowerChar(Char(s, lo))
    ELSE LowerFrom(s, lo, (lo + hi) \div 2) \o LowerFrom(s, ((lo + hi) \div 2) + 1, hi)

\* str.lower()
Lower(s) == LowerFrom(s, 1, Len(s))

\* Python's  sub in s
Contains(s, sub) ==
    \E i \in 1..(Len(s) - Len(sub) + 1) : SubSeq(s, i, i + Len(sub) - 1) = sub

\* the characters \w of a regular expression, for ASCII text
IsWordChar(c) ==
    IsIn(c, LowerChars) \/ IsIn(c, UpperChars) \/ IsIn(c, DigitChars) \/ c = "_"

IsSpaceChar(c) == c = " "

RECURSIVE DigitsOf(_)
DigitsOf(n) ==
    IF n < 10 THEN Char(DigitChars, n + 1)
    ELSE DigitsOf(n \div 10) \o Char(DigitChars, (n % 10) + 1)

\* str(n) of a non-negative int
IntStr(n) == DigitsOf(n)

\* two-digit, zero-padded field of a date
Pad2(n) == IF n < 10 THEN "0" \o DigitsOf(n) ELSE DigitsOf(n)

(***************************************************************************)
(* The keyword table and the classifier                                    *)
(***************************************************************************)

\* BookingVectorStore.keyword_categories, in the dict's insertion order
keyword_categories == <<
    [category |-> "cancellation", keywords |-> <<"cancel", "cancellation", "canceled">>],
    [category |-> "lead_time",    keywords |-> <<"lead", "advance", "booking time", "booked">>],
    [category |-> "hotel",        keywords |-> <<"hotel", "resort", "property", "accommodation">>],
    [category |-> "country",      keywords |-> <<"country", "nation", "nationality", "origin">>],
    [category |-> "revenue",      keywords |-> <<"revenue", "income", "adr", "money", "profit", "earn">>],
    [category |-> "duration",     keywords |-> <<"stay", "night", "duration", "length">>],
    [category |-> "family",       keywords |-> <<"family", "child", "children", "baby", "babies", "adult">>],
    [category |-> "requests",     keywords |-> <<"request", "special", "requirement", "needs">>],
    [category |-> "time",         keywords |-> <<"month", "year", "quarter", "season", "date", "period">>],
    [category |-> "room",         keywords |-> <<"room", "type", "assigned", "reserved">>],
    [category |-> "booking",      keywords |-> <<"booking", "reservation">> ] >>

\* the score of one category: how many of its keywords occur in the text
KeywordScore(query_lower, keywords) ==
    Cardinality({i \in 1..Len(keywords) : Contains(query_lower, keywords[i])})

\* category_scores: the categories with a positive score, in table order
CategoryScore(query, i) == KeywordScore(Lower(query), keyword_categories[i].keywords)

\* max(category_scores.items(), key=score): the first entry with the highest score
\* a classifier that scores the eight dispatched categories only
ExtractCategoryDispatched(query) ==
    LET scored == {i \in 1..8 : CategoryScore(query, i) > 0}
    IN  IF scored = {} THEN "general"
        ELSE LET best == CHOOSE i \in scored :
                           /\ \A j \in scored : CategoryScore(query, j) <= CategoryScore(query, i)
                           /\ \A j \in scored : j < i => CategoryScore(query, j) < CategoryScore(query, i)
             IN  keyword_categories[best].category

\* _extract_category: max() over the categories with a keyword in the query;
\* of equal scores the first in dict order wins
ExtractCategory(query) ==
    LET scored == {i \in 1..Len(keyword_categories) : CategoryScore(query, i) > 0}
    IN  IF scored = {} THEN "general"
        ELSE LET best == CHOOSE i \in scored :
                           /\ \A j \in scored : CategoryScore(query, j) <= CategoryScore(query, i)
                           /\ \A j \in scored : j < i => CategoryScore(query, j) < CategoryScore(query, i)
             IN  keyword_categories[best].category

\* QASystem._determine_query_category: the store has _extract_category, so the
\* hasattr branch is always taken
DetermineQueryCategory(query) == ExtractCategory(query)

(***************************************************************************)
(* Time filter and tokens                                                  *)
(***************************************************************************)

\* the months dict of _extract_time_info, in insertion order
months == <<
    [name |-> "january", number |-> 1], [name |-> "february", number |-> 2],
    [name |-> "march", number |-> 3], [name |-> "april", number |-> 4],
    [name |-> "may", number |-> 5], [name |-> "june", number |-> 6],
    [name |-> "july", number |-> 7], [name |-> "august", number |-> 8],
    [name |-> "september", number |-> 9], [name |-> "october", number |-> 10],
    [name |-> "november", number |-> 11], [name |-> "december", number |-> 12],
    [name |-> "jan", number |-> 1], [name |-> "feb", number |-> 2],
    [name |-> "mar", number |-> 3], [name |-> "apr", number |-> 4],
    [name |-> "jun", number |-> 6], [name |-> "jul", number |-> 7],
    [name |-> "aug", number |-> 8], [name |-> "sep", number |-> 9],
    [name |-> "oct", number |-> 10], [name |-> "nov", number |-> 11],
    [name |-> "dec", number |-> 12] >>

\* the first month name, in dict order, that occurs in the text
ExtractMonth(query_lower) ==
    LET hits == {i \in 1..Len(months) : Contains(query_lower, months[i].name)}
    IN  IF hits = {} THEN None
        ELSE Some(months[CHOOSE i \in hits : \A j \in hits : i <= j].number)

DigitValue(c) == (CHOOSE i \in 1..Len(DigitChars) : Char(DigitChars, i) = c) - 1

\* a match of \b(20\d{2})\b starts at position i
YearAt(s, i) ==
    /\ i + 3 <= Len(s)
    /\ SubSeq(s, i, i + 1) = "20"
    /\ IsIn(Char(s, i + 2), DigitChars)
    /\ IsIn(Char(s, i + 3), DigitChars)
    /\ (i = 1 \/ ~IsWordChar(Char(s, i - 1)))
    /\ (i + 3 = Len(s) \/ ~IsWordChar(Char(s, i + 4)))

\* re.search: the leftmost match
ExtractYear(query_lower) ==
    LET hits == {i \in 1..Len(query_lower) : YearAt(query_lower, i)}
    IN  IF hits = {} THEN None
        ELSE LET i == CHOOSE h \in hits : \A j \in hits : h <= j
             IN  Some(2000 + 10 * DigitValue(Char(query_lower, i + 2))
                           + DigitValue(Char(query_lower, i + 3)))

\* _extract_time_info: a key that is absent from the dict is None here
ExtractTimeInfo(query) ==
    [month |-> ExtractMonth(Lower(query)), year |-> ExtractYear(Lower(query))]

\* the dict time_info is empty
TimeInfoEmpty(time_info) == IsNone(time_info.month) /\ IsNone(time_info.year)

stopwords == {"a", "an", "the", "is", "are", "was", "were", "be", "been", "being",
              "in", "on", "at", "to", "for", "with", "by", "about", "of", "from"}

\* re.sub(r'[^\w\s]', ' ', text) followed by str.split(): the maximal runs of word
\* characters, left to right
RECURSIVE SplitFrom(_, _, _)
SplitFrom(s, i, word) ==
    IF i > Len(s) THEN (IF word = "" THEN <<>> ELSE <<word>>)
    ELSE IF IsWordChar(Char(s, i)) THEN SplitFrom(s, i + 1, word \o Char(s, i))
    ELSE IF word = "" THEN SplitFrom(s, i + 1, "")
    ELSE <<word>> \o SplitFrom(s, i + 1, "")

\* _tokenize_query
TokenizeQuery(query) ==
    SelectSeq(SplitFrom(Lower(query), 1, ""), LAMBDA token : token \notin stopwords)

(***************************************************************************)
(* The questions                                                           *)
(***************************************************************************)

\* pairs of questions that differ only in the month or the year they name
TimeVariants == {
    <<"Why do guests cancel in July 2017?",
      "Why do guests cancel in March 2016?">>,
    <<"What is the average lead time for bookings in July 2017?",
      "What is the average lead time for bookings in March 2016?">>,
    <<"What is the average length of stay in July 2017?",
      "What is the average length of stay in March 2016?">>,
    <<"How many bookings include children in July 2017?",
      "How many bookings include children in March 2016?">>,
    <<"Which hotels have the most bookings in July 2017?",
      "Which hotels have the most bookings in March 2016?">>,
    <<"Which country has most guests in July 2017?",
      "Which country has most guests in March 2016?">>,
    <<"What is the average number of special requests in July 2017?",
      "What is the average number of special requests in March 2016?">>,
    <<"What is the total revenue in July 2017?",
      "What is the total revenue in March 2016?">>,
    <<"guests in 2016",
      "guests in 2015">> }

VariantQuestions == {pair[1] : pair \in TimeVariants} \cup {pair[2] : pair \in TimeVariants}

\* the questions asked of the system
Questions == VariantQuestions \cup {
    "What is the cancellation rate?",
    "What is the average lead time for bookings?",
    "Which hotels have the most bookings?",
    "What countries do most guests come from?",
    "What is the total revenue for July 2017?",
    "What is the average length of stay?",
    "How many bookings include children?",
    "What is the average number of special requests?",
    "Why do guests cancel?",
    "WHY DO GUESTS CANCEL?",
    "What is the total revenue?",
    "What is the total revenue for March 2018?",
    "Which country has most guests?",
    "Which month is busiest?",
    "What is the revenue per hotel?",
    "city guests",
    "Hello there" }

\* the questions put to answer_question
AskedQuestions == {
    "Why do guests cancel?",
    "WHY DO GUESTS CANCEL?",
    "What is the average lead time for bookings?",
    "How many bookings include children?",
    "Which month is busiest?",
    "Hello there" }

\* the classifier, the time filter, the tokens and the lowered text of every
\* question, computed once
CategoryOf == [q \in Questions |-> ExtractCategory(q)]

TimeInfoOf == [q \in Questions |-> ExtractTimeInfo(q)]

TokensOf == [q \in Questions |-> TokenizeQuery(q)]

LowerOf == [q \in Questions |-> Lower(q)]

DeterminedCategoryOf == [q \in Questions |-> DetermineQueryCategory(q)]

(***************************************************************************)
(* The bookings table                                                      *)
(***************************************************************************)

OtherColumns == <<"BB", "Online TA", "TA/TO", "False", "0", "0", "A", "0", "None",
                  "None", "0", "Transient", "0", "Check-Out", "2017-08-01">>

\* The rows a bookings table can hold, by primary key.  No column but id is
\* NOT NULL: row 6 has no arrival_date, row 7 has babies and country NULL.
\* others holds str(value) of the columns no policy reads.
Rows == <<
    [id |-> 1, hotel |-> "City Hotel", is_canceled |-> TRUE, lead_time |-> 5,
     arrival_date |-> Some([year |-> 2017, month |-> 7, day |-> 1]),
     stays_in_weekend_nights |-> 1, stays_in_week_nights |-> 2, adults |-> 2,
     children |-> Some(0), babies |-> Some(0), country |-> Some("PRT"), adr |-> 100,
     deposit_type |-> "No Deposit", reserved_room_type |-> "A",
     total_of_special_requests |-> 0, others |-> OtherColumns],
    [id |-> 2, hotel |-> "Resort Hotel", is_canceled |-> FALSE, lead_time |-> 20,
     arrival_date |-> Some([year |-> 2017, month |-> 7, day |-> 15]),
     stays_in_weekend_nights |-> 1, stays_in_week_nights |-> 2, adults |-> 2,
     children |-> Some(1), babies |-> Some(0), country |-> Some("GBR"), adr |-> 100,
     deposit_type |-> "No Deposit", reserved_room_type |-> "C",
     total_of_special_requests |-> 1, others |-> OtherColumns],
    [id |-> 3, hotel |-> "City Hotel", is_canceled |-> TRUE, lead_time |-> 45,
     arrival_date |-> Some([year |-> 2016, month |-> 7, day |-> 10]),
     stays_in_weekend_nights |-> 0, stays_in_week_nights |-> 0, adults |-> 1,
     children |-> Some(0), babies |-> Some(0), country |-> Some("PRT"), adr |-> 80,
     deposit_type |-> "Non Refund", reserved_room_type |-> "A",
     total_of_special_requests |-> 0, others |-> OtherColumns],
    [id |-> 4, hotel |-> "City Hotel", is_canceled |-> TRUE, lead_time |-> 100,
     arrival_date |-> Some([year |-> 2017, month |-> 8, day |-> 5]),
     stays_in_weekend_nights |-> 2, stays_in_week_nights |-> 5, adults |-> 2,
     children |-> Some(0), babies |-> Some(1), country |-> Some("FRA"), adr |-> 120,
     deposit_type |-> "No Deposit", reserved_room_type |-> "D",
     total_of_special_requests |-> 2, others |-> OtherColumns],
    [id |-> 5, hotel |-> "City Hotel", is_canceled |-> TRUE, lead_time |-> 400,
     arrival_date |-> Some([year |-> 2015, month |-> 12, day |-> 24]),
     stays_in_weekend_nights |-> 0, stays_in_week_nights |-> 1, adults |-> 1,
     children |-> Some(0), babies |-> Some(0), country |-> Some("PRT"), adr |-> 60,
     deposit_type |-> "Non Refund", reserved_room_type |-> "A",
     total_of_special_requests |-> 0, others |-> OtherColumns],
    [id |-> 6, hotel |-> "Airport Hotel", is_canceled |-> FALSE, lead_time |-> 3,
     arrival_date |-> None,
     stays_in_weekend_nights |-> 0, stays_in_week_nights |-> 1, adults |-> 2,
     children |-> Some(0), babies |-> Some(0), country |-> Some("ESP"), adr |-> 90,
     deposit_type |-> "No Deposit", reserved_room_type |-> "A",
     total_of_special_requests |-> 1, others |-> OtherColumns],
    [id |-> 7, hotel |-> "Resort Hotel", is_canceled |-> FALSE, lead_time |-> 10,
     arrival_date |-> Some([year |-> 2017, month |-> 7, day |-> 30]),
     stays_in_weekend_nights |-> 0, stays_in_week_nights |-> 2, adults |-> 2,
     children |-> Some(0), babies |-> None, country |-> None, adr |-> 150,
     deposit_type |-> "No Deposit", reserved_room_type |-> "A",
     total_of_special_requests |-> 3, others |-> OtherColumns] >>

NRows == Len(Rows)

RowIds == 1..NRows

\* the ids of a set of rows in primary-key order: session.query(Booking).all()
RECURSIVE IdsFrom(_, _)
IdsFrom(ids, i) ==
    IF i > NRows THEN <<>>
    ELSE (IF i \in ids THEN <<i>> ELSE <<>>) \o IdsFrom(ids, i + 1)

QueryAllBookings(ids) == IdsFrom(ids, 1)

\* str(value) of a column value
BoolStr(b) == IF b THEN "True" ELSE "False"

OptIntStr(x) == IF IsNone(x) THEN "None" ELSE IntStr(Val(x))

OptStr(x) == IF IsNone(x) THEN "None" ELSE Val(x)

DateStr(x) ==
    IF IsNone(x) THEN "None"
    ELSE IntStr(Val(x).year) \o "-" \o Pad2(Val(x).month) \o "-" \o Pad2(Val(x).day)

\* str() of a float that holds a whole number
FloatStr(n) == IntStr(n) \o ".0"

RECURSIVE JoinWithSpace(_, _)
JoinWithSpace(strs, i) ==
    IF i > Len(strs) THEN "" ELSE strs[i] \o " " \o JoinWithSpace(strs, i + 1)

\* str(value) + ' ' over every key of the dict but 'id' (the key relevance_score,
\* when a search has added it, comes last)
ColumnText(r) ==
    JoinWithSpace(<<r.hotel, BoolStr(r.is_canceled), IntStr(r.lead_time),
                    DateStr(r.arrival_date), IntStr(r.stays_in_weekend_nights),
                    IntStr(r.stays_in_week_nights), IntStr(r.adults),
                    OptIntStr(r.children), OptIntStr(r.babies), OptStr(r.country),
                    FloatStr(r.adr), r.deposit_type, r.reserved_room_type,
                    IntStr(r.total_of_special_requests)>> \o r.others, 1)

\* the lowered column text of every row, computed once
LowerColumnText == [i \in RowIds |-> Lower(ColumnText(Rows[i]))]

\* booking_text of the default search
BookingText(r, score) ==
    LowerColumnText[r.id] \o (IF IsNone(score) THEN "" ELSE IntStr(Val(score)) \o " ")

TotalNights(r) == r.stays_in_weekend_nights + r.stays_in_week_nights

(***************************************************************************)
(* Lists of dicts                                                          *)
(***************************************************************************)

\* the row a dict was built from
Row(a) == Rows[a[2]]

\* a list element that is the stored dict itself
RefEntry(a) ==
    [addr |-> Some(a), id |-> a[2], relevance_score |-> None, total_nights |-> None]

\* a list element that is booking.copy() with its own relevance_score
CopyEntry(a, score, nights) ==
    [addr |-> None, id |-> a[2], relevance_score |-> Some(score), total_nights |-> nights]

RefEntries(addrs) == [i \in 1..Len(addrs) |-> RefEntry(addrs[i])]

\* seq[:n] for n >= 0
Take(seq, n) == SubSeq(seq, 1, Min(n, Len(seq)))

Elems(seq) == {seq[i] : i \in 1..Len(seq)}

\* sampling with replacement, as random.choices(population, k=n) does
SamplesWithReplacement(population, n) ==
    {[i \in 1..n |-> population[p[i]]] : p \in [1..n -> 1..Len(population)]}

\* the sequences random.sample(population, n) can return
Samples(population, n) ==
    {[i \in 1..n |-> population[p[i]]] :
        p \in {f \in [1..n -> 1..Len(population)] :
                  \A i, j \in 1..n : i # j => f[i] # f[j]}}

\* results.extend(random.sample(group, min(size, len(group)))) over the groups
RECURSIVE SampleGroups(_, _, _)
SampleGroups(groups, i, size) ==
    IF i > Len(groups) THEN {<<>>}
    ELSE {s \o rest : s \in Samples(groups[i], Min(size, Len(groups[i]))),
                      rest \in SampleGroups(groups, i + 1, size)}

\* sorted(), which is stable, on [key, item] pairs; reverse=True keeps the order
\* of equal keys too
RECURSIVE InsertKeyed(_, _, _)
InsertKeyed(sorted, x, reverse) ==
    IF sorted = <<>> THEN <<x>>
    ELSE IF (IF reverse THEN Head(sorted).key >= x.key ELSE Head(sorted).key <= x.key)
         THEN <<Head(sorted)>> \o InsertKeyed(Tail(sorted), x, reverse)
         ELSE <<x>> \o sorted

RECURSIVE SortKeyed(_, _, _)
SortKeyed(pairs, n, reverse) ==
    IF n = 0 THEN <<>>
    ELSE InsertKeyed(SortKeyed(pairs, n - 1, reverse), pairs[n], reverse)

Sorted(pairs, reverse) ==
    LET sorted == SortKeyed(pairs, Len(pairs), reverse)
    IN  [i \in 1..Len(sorted) |-> sorted[i].item]

\* what one call of a search policy does: the list it returns and the
\* relevance_score it writes into stored dicts, or the exception it raises
Returned(results, marks) ==
    [raised |-> FALSE, error |-> "", results |-> results, marks |-> marks]

Raised(error) == [raised |-> TRUE, error |-> error, results |-> <<>>, marks |-> <<>>]

NoMarks == <<>>

(***************************************************************************)
(* The retrieval policies of BookingVectorStore.  data is booking_data, a  *)
(* list of addresses; each policy yields the set of its possible outcomes. *)
(***************************************************************************)

\* int(k * 0.8)
\* half of k, not four fifths
CancelledShareHalf(k) == k \div 2

CancelledShare(k) == (4 * k) \div 5

CancellationScore(a) == IF Row(a).is_canceled THEN 5 ELSE 3

SearchCancellation(data, k) ==
    LET cancelled     == SelectSeq(data, LAMBDA a : Row(a).is_canceled)
        not_cancelled == SelectSeq(data, LAMBDA a : ~Row(a).is_canceled)
        first         == Take(cancelled, CancelledShare(k))
        results       == first \o Take(not_cancelled, k - Len(first))
    IN  {Returned(RefEntries(results),
                  [a \in Elems(results) |-> CancellationScore(a)])}

\* lead_time_ranges; the last one is open-ended
lead_time_ranges == <<[lo |-> 0, hi |-> Some(7)], [lo |-> 8, hi |-> Some(30)],
                      [lo |-> 31, hi |-> Some(90)], [lo |-> 91, hi |-> Some(365)],
                      [lo |-> 366, hi |-> None]>>

InLeadTimeRange(lead_time, range) ==
    range.lo <= lead_time /\ (IsNone(range.hi) \/ lead_time <= Val(range.hi))

SearchLeadTime(data, k) ==
    LET range_bookings == [i \in 1..Len(lead_time_ranges) |->
            SelectSeq(data, LAMBDA a : InLeadTimeRange(Row(a).lead_time, lead_time_ranges[i]))]
        sample_size == (k \div Len(lead_time_ranges)) + 1
    IN  {Returned(RefEntries(Take(r, k)), [a \in Elems(Take(r, k)) |-> 5]) :
            r \in SampleGroups(range_bookings, 1, sample_size)}

\* the arrival date passes the time filter; a booking without a date passes
MatchesTime(r, time_info) ==
    \/ IsNone(r.arrival_date)
    \/ /\ (IsNone(time_info.year) \/ Val(r.arrival_date).year = Val(time_info.year))
       /\ (IsNone(time_info.month) \/ Val(r.arrival_date).month = Val(time_info.month))

SearchRevenue(data, time_info, k) ==
    IF ~TimeInfoEmpty(time_info)
    THEN LET matching == SelectSeq(data, LAMBDA a :
                             MatchesTime(Row(a), time_info) /\ ~Row(a).is_canceled)
             results  == [i \in 1..Len(matching) |-> CopyEntry(matching[i], 5, None)]
         IN  {Returned(Take(results, k), NoMarks)}
    ELSE LET active  == SelectSeq(data, LAMBDA a : ~Row(a).is_canceled)
             keyed   == [i \in 1..Len(active) |-> [key |-> Row(active[i]).adr, item |-> active[i]]]
             results == Take(Sorted(keyed, TRUE), k)
         IN  {Returned(RefEntries(results), [a \in Elems(results) |-> 5])}

\* range(0, n, step) as 1-based positions
Strides(n, step) == {i \in 1..n : (i - 1) % step = 0}

SearchDuration(data, k) ==
    LET positive  == SelectSeq(data, LAMBDA a : TotalNights(Row(a)) > 0)
        \* the loop breaks once len(results) >= k * 3, tested after an append
        collected == Take(positive, Max(1, 3 * k))
        keyed     == [i \in 1..Len(collected) |->
                         [key |-> TotalNights(Row(collected[i])), item |-> collected[i]]]
        results   == Sorted(keyed, FALSE)
    IN  IF k = 0 THEN {Raised("ZeroDivisionError")}
        ELSE LET step    == Max(1, Len(results) \div k)
                 picked  == SelectSeq([i \in 1..Len(results) |-> i],
                                      LAMBDA i : i \in Strides(Len(results), step))
                 sampled == [j \in 1..Len(picked) |->
                                CopyEntry(results[picked[j]], 5,
                                          Some(TotalNights(Row(results[picked[j]]))))]
             IN  {Returned(Take(sampled, k), NoMarks)}

\* b.get('children', 0) > 0 or b.get('babies', 0) > 0  raises TypeError when the
\* operand it reaches is None
FamilyTestRaises(r) ==
    IsNone(r.children) \/ (Val(r.children) <= 0 /\ IsNone(r.babies))

IsFamily(r) ==
    Val(r.children) > 0 \/ Val(r.babies) > 0

\* adults > 1 and children == 0 and babies == 0: None == 0 is False
IsMultiAdult(r) ==
    /\ r.adults > 1
    /\ r.children = Some(0)
    /\ r.babies = Some(0)

SearchFamily(data, k) ==
    IF \E a \in Elems(data) : FamilyTestRaises(Row(a)) THEN {Raised("TypeError")}
    ELSE LET family_bookings == SelectSeq(data, LAMBDA a : IsFamily(Row(a)))
             multi_adult     == SelectSeq(data, LAMBDA a : IsMultiAdult(Row(a)))
             results == family_bookings \o Take(multi_adult, k - Len(family_bookings))
         IN  IF Len(family_bookings) >= k
             THEN {Returned(RefEntries(Take(family_bookings, k)), NoMarks)}
             ELSE {Returned(RefEntries(results),
                            [a \in Elems(results) |-> IF IsFamily(Row(a)) THEN 5 ELSE 3])}

\* the three policies that sample from a memoized grouping, a list of
\* [key, members] in the dict's order
GroupMembers(groups) == [i \in 1..Len(groups) |-> groups[i].members]

SampledFrom(member_lists, sample_size, k) ==
    {Returned(RefEntries(Take(r, k)), [a \in Elems(Take(r, k)) |-> 5]) :
        r \in SampleGroups(member_lists, 1, sample_size)}

SearchHotel(hotels, k) ==
    IF Len(hotels) = 0 THEN {Returned(<<>>, NoMarks)}
    ELSE SampledFrom(GroupMembers(hotels), (k \div Len(hotels)) + 1, k)

SearchCountry(countries, k) ==
    LET keyed == [i \in 1..Len(countries) |->
                     [key |-> Len(countries[i].members), item |-> countries[i]]]
        top_countries == Sorted(keyed, TRUE)
        countries_to_include == Min(5, Len(top_countries))
    IN  IF countries_to_include = 0 THEN {Returned(<<>>, NoMarks)}
        ELSE SampledFrom(GroupMembers(Take(top_countries, countries_to_include)),
                         (k \div countries_to_include) + 1, k)

SearchRequests(request_groups, k) ==
    LET keyed == [i \in 1..Len(request_groups) |->
                     [key |-> request_groups[i].key, item |-> request_groups[i]]]
        ordered == Sorted(keyed, FALSE)
    IN  IF Len(request_groups) = 0 THEN {Returned(<<>>, NoMarks)}
        ELSE SampledFrom(GroupMembers(ordered), (k \div Len(request_groups)) + 1, k)

\* the default branch: count the tokens that occur in the booking's text
TokenMatches(tokens, text) ==
    Cardinality({i \in 1..Len(tokens) : Contains(text, tokens[i])})

\* the relevance_score values the policies write into stored dicts
MarkedScores == {None, Some(3), Some(5)}

\* matches of every question's tokens in every row's text, computed once
DefaultMatches ==
    [q \in Questions |-> [id \in RowIds |-> [score \in MarkedScores |->
        TokenMatches(TokensOf[q], BookingText(Rows[id], score))]]]

SearchDefault(data, query, k, scores) ==
    LET matches(a) == DefaultMatches[query][a[2]][scores[a]]
        relevant   == SelectSeq(data, LAMBDA a : matches(a) > 0)
        keyed      == [i \in 1..Len(relevant) |->
                          [key |-> matches(relevant[i]),
                           item |-> CopyEntry(relevant[i], matches(relevant[i]), None)]]
    IN  {Returned(Take(Sorted(keyed, TRUE), k), NoMarks)}

(***************************************************************************)
(* Grouping: _get_hotel_groupings and its two siblings                     *)
(***************************************************************************)

\* one pass over the list: a dict from key to the dicts with that key, in the
\* order the keys first appear
GroupBy(data, keys) ==
    LET indices    == [i \in 1..Len(data) |-> i]
        firsts     == SelectSeq(indices, LAMBDA i : \A j \in 1..(i - 1) : keys[j] # keys[i])
        with(key)  == SelectSeq(indices, LAMBDA i : keys[i] = key)
    IN  [n \in 1..Len(firsts) |->
            [key     |-> keys[firsts[n]],
             members |-> [m \in 1..Len(with(keys[firsts[n]])) |->
                             data[with(keys[firsts[n]])[m]]]]]

\* booking.get('hotel', 'Unknown'): the key is always present, so never 'Unknown'
HotelKey(a) == Row(a).hotel

\* booking.get('country', 'Unknown'): a NULL country is the key None
CountryKey(a) == Row(a).country

RequestsKey(a) == Row(a).total_of_special_requests

GetHotelGroupings(data) == GroupBy(data, [i \in 1..Len(data) |-> HotelKey(data[i])])

GetCountryGroupings(data) ==
    GroupBy(data, [i \in 1..Len(data) |-> CountryKey(data[i])])

GetRequestGroupings(data) ==
    GroupBy(data, [i \in 1..Len(data) |-> RequestsKey(data[i])])

(***************************************************************************)
(* Number formatting and counting for the answer templates                 *)
(***************************************************************************)

RECURSIVE Pow10(_)
Pow10(d) == IF d = 0 THEN 1 ELSE 10 * Pow10(d - 1)

RECURSIVE ZeroPad(_, _)
ZeroPad(str, width) == IF Len(str) >= width THEN str ELSE ZeroPad("0" \o str, width)

\* f"{num / den:.{d}f}" for num >= 0, den > 0: the quotient rounded to d
\* decimals, a tie going to the even digit
Fmt(num, den, d) ==
    LET scaled == num * Pow10(d)
        q      == scaled \div den
        r      == scaled % den
        up     == 2 * r > den \/ (2 * r = den /\ q % 2 = 1)
        v      == IF up THEN q + 1 ELSE q
    IN  IntStr(v \div Pow10(d)) \o "." \o ZeroPad(IntStr(v % Pow10(d)), d)

RECURSIVE SumSeq(_, _)
SumSeq(xs, n) == IF n = 0 THEN 0 ELSE SumSeq(xs, n - 1) + xs[n]

Sum(xs) == SumSeq(xs, Len(xs))

Count(xs, v) == Cardinality({i \in 1..Len(xs) : xs[i] = v})

\* the keys of Counter(xs), in insertion order
Distinct(xs) ==
    LET firsts == SelectSeq([i \in 1..Len(xs) |-> i],
                            LAMBDA i : \A j \in 1..(i - 1) : xs[j] # xs[i])
    IN  [n \in 1..Len(firsts) |-> xs[firsts[n]]]

\* Counter(xs).most_common(n): by count, highest first, equal counts in
\* insertion order
MostCommon(xs, n) ==
    LET keys  == Distinct(xs)
        keyed == [i \in 1..Len(keys) |->
                    [key |-> Count(xs, keys[i]),
                     item |-> [value |-> keys[i], count |-> Count(xs, keys[i])]]]
    IN  Take(Sorted(keyed, TRUE), n)

\* statistics.median, as a fraction [num, den]
Median(xs) ==
    LET keyed  == [i \in 1..Len(xs) |-> [key |-> xs[i], item |-> xs[i]]]
        sorted == Sorted(keyed, FALSE)
        n      == Len(xs)
    IN  IF n % 2 = 1 THEN [num |-> sorted[(n + 1) \div 2], den |-> 1]
        ELSE [num |-> sorted[n \div 2] + sorted[(n \div 2) + 1], den |-> 2]

UpperChar(c) ==
    IF IsIn(c, LowerChars)
    THEN Char(UpperChars, CHOOSE i \in 1..Len(LowerChars) : Char(LowerChars, i) = c)
    ELSE c

\* str.capitalize() of a lower-case word
Capitalize(word) == UpperChar(Char(word, 1)) \o SubSeq(word, 2, Len(word))

RECURSIVE JoinWith(_, _, _)
JoinWith(strs, sep, i) ==
    IF i > Len(strs) THEN ""
    ELSE strs[i] \o (IF i < Len(strs) THEN sep ELSE "") \o JoinWith(strs, sep, i + 1)

\* sep.join(strs)
Join(strs, sep) == JoinWith(strs, sep, 1)

(***************************************************************************)
(* The answer templates of QASystem.  bookings is the list of rows of the  *)
(* retrieved subset, all_bookings the rows of vector_store.booking_data.   *)
(***************************************************************************)

NoDataAnswer == "I don't have any booking information to answer this question."

GenericAnswer == "Based on the booking data, I found some related information, but I'm not sure how to answer your specific question."

\* [b[name] for b in xs]
Field(xs, name) == [i \in 1..Len(xs) |-> xs[i][name]]

\* the total nights of every booking of a list
Nights(xs) == [i \in 1..Len(xs) |-> TotalNights(xs[i])]

\* an _answer_cancellation whose rate is that of the retrieved subset
AnswerCancellationOverSubset(query, bookings, all_bookings) ==
    LET cancelled == SelectSeq(bookings, LAMBDA b : b.is_canceled)
    IN  "I found that the overall cancellation rate is "
        \o Fmt(100 * Len(cancelled), Len(bookings), 2)
        \o "%. Out of " \o IntStr(Len(bookings)) \o " bookings, "
        \o IntStr(Len(cancelled)) \o " were canceled."

AnswerCancellation(query, bookings, all_bookings) ==
    LET cancelled     == SelectSeq(bookings, LAMBDA b : b.is_canceled)
        all_cancelled == SelectSeq(all_bookings, LAMBDA b : b.is_canceled)
        lead_times    == Field(cancelled, "lead_time")
        deposit_types == Field(cancelled, "deposit_type")
    IN  IF Contains(LowerOf[query], "rate")
        THEN "I found that the overall cancellation rate is "
             \o (IF Len(all_bookings) > 0
                 THEN Fmt(100 * Len(all_cancelled), Len(all_bookings), 2)
                 ELSE Fmt(0, 1, 2))
             \o "%. Out of " \o IntStr(Len(all_bookings)) \o " bookings, "
             \o IntStr(Len(all_cancelled)) \o " were canceled."
        ELSE IF Len(cancelled) > 0
        THEN "I found that out of " \o IntStr(Len(bookings)) \o " bookings, "
             \o IntStr(Len(cancelled)) \o " were canceled ("
             \o Fmt(100 * Len(cancelled), Len(bookings), 2) \o "%). "
             \o "The average lead time for canceled bookings was "
             \o Fmt(Sum(lead_times), Len(lead_times), 1) \o " days. "
             \o "The most common deposit type for canceled bookings was '"
             \o MostCommon(deposit_types, 1)[1].value \o "'."
        ELSE "I haven't found any canceled bookings in the sample. This suggests a low cancellation rate, "
             \o "but I would need to analyze more data to give you a precise cancellation rate."

\* "{hotel}: {avg:.Nf}{unit}" for every hotel of the list, in first-seen order
HotelAverages(bookings, values, decimals, unit) ==
    LET hotels  == Distinct(Field(bookings, "hotel"))
        indices == [i \in 1..Len(bookings) |-> i]
        at(h)   == SelectSeq(indices, LAMBDA i : bookings[i].hotel = h)
        of(h)   == [n \in 1..Len(at(h)) |-> values[at(h)[n]]]
    IN  Join([i \in 1..Len(hotels) |->
                 hotels[i] \o ": " \o Fmt(Sum(of(hotels[i])), Len(of(hotels[i])), decimals) \o unit],
             ", ")

AnswerLeadTime(query, bookings) ==
    LET lead_times == Field(bookings, "lead_time")
        median     == Median(lead_times)
    IN  IF Contains(LowerOf[query], "average")
        THEN "The average lead time for bookings is "
             \o Fmt(Sum(lead_times), Len(lead_times), 1) \o " days."
        ELSE "Based on the booking data, the average lead time is "
             \o Fmt(Sum(lead_times), Len(lead_times), 1) \o " days, with a median of "
             \o Fmt(median.num, median.den, 1) \o " days. "
             \o "Average lead times by hotel type: "
             \o HotelAverages(bookings, Field(bookings, "lead_time"), 1, " days") \o "."

\* the month name and the year the revenue answer repeats from the question
TimePeriod(query_lower) ==
    LET hits  == {i \in 1..Len(months) : Contains(query_lower, months[i].name)}
        month == IF hits = {} THEN None
                 ELSE Some(months[CHOOSE i \in hits : \A j \in hits : i <= j].name)
        years == {i \in 1..Len(query_lower) : YearAt(query_lower, i)}
        year  == IF years = {} THEN None
                 ELSE LET i == CHOOSE h \in years : \A j \in years : h <= j
                      IN  Some(SubSeq(query_lower, i, i + 3))
    IN  (IF IsNone(month) THEN "" ELSE " for " \o Capitalize(Val(month)))
        \o (IF IsNone(year) THEN ""
            ELSE IF IsNone(month) THEN " for " \o Val(year) ELSE " " \o Val(year))

Revenue(b) == b.adr * TotalNights(b)

\* an _answer_revenue that does not filter out the canceled bookings
AnswerRevenueWithCanceled(query, bookings) ==
    LET revenues == [i \in 1..Len(bookings) |-> Revenue(bookings[i])]
    IN  "The total revenue" \o TimePeriod(LowerOf[query])
        \o " from the analyzed bookings is €" \o Fmt(Sum(revenues), 1, 2) \o "."

AnswerRevenue(query, bookings) ==
    LET active_bookings == SelectSeq(bookings, LAMBDA b : ~b.is_canceled)
        revenues        == [i \in 1..Len(active_bookings) |-> Revenue(active_bookings[i])]
        time_period     == TimePeriod(LowerOf[query])
    IN  IF Len(active_bookings) = 0
        THEN "I couldn't find any revenue information from completed bookings."
        ELSE IF Contains(LowerOf[query], "total")
        THEN "The total revenue" \o time_period \o " from the analyzed bookings is €"
             \o Fmt(Sum(revenues), 1, 2) \o "."
        ELSE "Based on " \o IntStr(Len(active_bookings)) \o " analyzed bookings" \o time_period
             \o ", the total revenue is €" \o Fmt(Sum(revenues), 1, 2)
             \o ", with an average of €" \o Fmt(Sum(revenues), Len(revenues), 2)
             \o " per booking."

AnswerDuration(query, bookings) ==
    LET durations == SelectSeq(bookings, LAMBDA b : TotalNights(b) > 0)
        totals    == Nights(durations)
        weekend   == Field(durations, "stays_in_weekend_nights")
        weekday   == Field(durations, "stays_in_week_nights")
        n         == Len(durations)
    IN  IF n = 0
        THEN "I couldn't find any information about stay durations in the booking data."
        ELSE IF Contains(LowerOf[query], "average") \/ Contains(LowerOf[query], "mean")
        THEN "The average length of stay is " \o Fmt(Sum(totals), n, 1)
             \o " nights, comprising " \o Fmt(Sum(weekday), n, 1)
             \o " weekday nights and " \o Fmt(Sum(weekend), n, 1) \o " weekend nights."
        ELSE "Based on the booking data, the average length of stay is "
             \o Fmt(Sum(totals), n, 1) \o " nights. "
             \o "The most common stay duration is "
             \o IntStr(MostCommon(totals, 1)[1].value) \o " nights."
             \o " Average stay by hotel type: "
             \o HotelAverages(durations, Nights(durations), 1, " nights") \o "."

\* b.get('children', 0) > 0 and b.get('babies', 0) > 0 are each evaluated for
\* every booking: a None in either column raises TypeError
CountTestRaises(bookings) ==
    \E i \in 1..Len(bookings) : IsNone(bookings[i].children) \/ IsNone(bookings[i].babies)

Percent(part, whole) ==
    IF Len(whole) > 0 THEN Fmt(100 * Len(part), Len(whole), 2) ELSE Fmt(0, 1, 2)

AnswerFamily(query, bookings, all_bookings) ==
    LET with_children == SelectSeq(bookings, LAMBDA b : Val(b.children) > 0)
        with_babies   == SelectSeq(bookings, LAMBDA b : Val(b.babies) > 0)
        all_children  == SelectSeq(all_bookings, LAMBDA b : Val(b.children) > 0)
        all_babies    == SelectSeq(all_bookings, LAMBDA b : Val(b.babies) > 0)
        families      == SelectSeq(bookings, LAMBDA b : IsFamily(b))
        family_hotels == Field(families, "hotel")
        family_rooms  == Field(families, "reserved_room_type")
        overall       == Contains(LowerOf[query], "include children")
                            \/ Contains(LowerOf[query], "how many")
    IN  IF CountTestRaises(bookings) \/ (overall /\ CountTestRaises(all_bookings))
        THEN [raised |-> TRUE, answer |-> ""]
        ELSE IF overall
        THEN [raised |-> FALSE, answer |->
                "Out of " \o IntStr(Len(all_bookings)) \o " bookings, "
                \o IntStr(Len(all_children)) \o " (" \o Percent(all_children, all_bookings)
                \o "%) include children and " \o IntStr(Len(all_babies)) \o " ("
                \o Percent(all_babies, all_bookings) \o "%) include babies."]
        ELSE [raised |-> FALSE, answer |->
                "Looking at " \o IntStr(Len(bookings)) \o " bookings, "
                \o IntStr(Len(with_children)) \o " include children and "
                \o IntStr(Len(with_babies)) \o " include babies. "
                \o "Families most commonly stay at '"
                \o (IF Len(families) > 0 THEN MostCommon(family_hotels, 1)[1].value ELSE "Unknown")
                \o "' hotel, and the most popular room type for families is '"
                \o (IF Len(families) > 0 THEN MostCommon(family_rooms, 1)[1].value ELSE "Unknown")
                \o "'."]

\* str.strip() of a text that can only end in line breaks
RECURSIVE StripEnd(_)
StripEnd(str) ==
    IF Len(str) > 0 /\ Char(str, Len(str)) = "\n" THEN StripEnd(SubSeq(str, 1, Len(str) - 1))
    ELSE str

AnswerHotel(query, bookings, all_bookings) ==
    LET top_hotels == MostCommon(Field(all_bookings, "hotel"), 3)
        hotels     == Distinct(Field(bookings, "hotel"))
        of(h)      == SelectSeq(bookings, LAMBDA b : b.hotel = h)
        line(h)    == "- " \o h \o ": " \o IntStr(Len(of(h))) \o " bookings, "
                      \o Fmt(100 * Len(SelectSeq(of(h), LAMBDA b : b.is_canceled)), Len(of(h)), 2)
                      \o "% cancellation rate, average daily rate of €"
                      \o Fmt(Sum(Field(of(h), "adr")), Len(of(h)), 2) \o "\n"
    IN  IF Contains(LowerOf[query], "most bookings")
        THEN "The hotels with the most bookings are "
             \o Join([i \in 1..Len(top_hotels) |->
                         "'" \o top_hotels[i].value \o "' ("
                         \o IntStr(top_hotels[i].count) \o " bookings)"], ", ")
             \o "."
        ELSE StripEnd("Here's information about the hotels in the booking data:\n"
                      \o Join([i \in 1..Len(hotels) |-> line(hotels[i])], ""))

AnswerCountry(query, bookings, all_bookings) ==
    LET top_countries == MostCommon(Field(all_bookings, "country"), 5)
        countries     == Distinct(Field(bookings, "country"))
        of(c)         == SelectSeq(bookings, LAMBDA b : b.country = c)
        stays(c)      == SelectSeq(of(c), LAMBDA b : TotalNights(b) > 0)
        keyed         == [i \in 1..Len(countries) |->
                             [key |-> Len(of(countries[i])), item |-> countries[i]]]
        ordered       == Sorted(keyed, TRUE)
        line(c)       == "- " \o OptStr(c) \o ": " \o IntStr(Len(of(c))) \o " bookings, average stay of "
                         \o (IF Len(stays(c)) > 0
                             THEN Fmt(Sum(Nights(stays(c))), Len(stays(c)), 1)
                             ELSE Fmt(0, 1, 1))
                         \o " nights, average daily rate of €"
                         \o Fmt(Sum(Field(of(c), "adr")), Len(of(c)), 2) \o "\n"
    IN  IF Contains(LowerOf[query], "most") \/ Contains(LowerOf[query], "top")
        THEN "The top countries of origin for guests are: "
             \o Join([i \in 1..Len(top_countries) |->
                         OptStr(top_countries[i].value) \o " ("
                         \o IntStr(top_countries[i].count) \o " bookings)"], ", ")
             \o "."
        ELSE StripEnd("Here's information about guest countries in the booking data:\n"
                      \o Join([i \in 1..Len(ordered) |-> line(ordered[i])], ""))

MaxOf(xs) == CHOOSE v \in Elems(xs) : \A w \in Elems(xs) : w <= v

AnswerRequests(query, bookings, all_bookings) ==
    LET request_counts == Field(bookings, "total_of_special_requests")
        all_counts     == Field(all_bookings, "total_of_special_requests")
    IN  IF Contains(LowerOf[query], "average") \/ Contains(LowerOf[query], "mean")
        THEN "The average number of special requests per booking is "
             \o (IF Len(all_counts) > 0 THEN Fmt(Sum(all_counts), Len(all_counts), 2)
                 ELSE Fmt(0, 1, 2))
             \o "."
        ELSE "Based on the booking data, the average number of special requests is "
             \o Fmt(Sum(request_counts), Len(request_counts), 2) \o " per booking. "
             \o "The most common number of requests is "
             \o IntStr(MostCommon(request_counts, 1)[1].value) \o ", and the maximum is "
             \o IntStr(MaxOf(request_counts)) \o "."
             \o " Average requests by hotel type: "
             \o HotelAverages(bookings, Field(bookings, "total_of_special_requests"), 2, "") \o "."

\* _generate_answer: the text, or raised when a template raises
GenerateAnswer(query, bookings, category, all_bookings) ==
    LET text(answer) == [raised |-> FALSE, answer |-> answer]
    IN  IF Len(bookings) = 0 THEN text(NoDataAnswer)
        ELSE IF category = "cancellation"
        THEN text(AnswerCancellation(query, bookings, all_bookings))
        ELSE IF category = "lead_time" THEN text(AnswerLeadTime(query, bookings))
        ELSE IF category = "revenue" THEN text(AnswerRevenue(query, bookings))
        ELSE IF category = "duration" THEN text(AnswerDuration(query, bookings))
        ELSE IF category = "family" THEN AnswerFamily(query, bookings, all_bookings)
        ELSE IF category = "hotel" THEN text(AnswerHotel(query, bookings, all_bookings))
        ELSE IF category = "country" THEN text(AnswerCountry(query, bookings, all_bookings))
        ELSE IF category = "requests" THEN text(AnswerRequests(query, bookings, all_bookings))
        ELSE text(GenericAnswer)

(***************************************************************************)
(* BookingVectorStore.search                                               *)
(***************************************************************************)

\* the dispatch of search(query, k): data is booking_data, groupings the three
\* memoized dicts, scores the relevance_score of every stored dict
\* a dispatch that drops, for every category, the bookings whose arrival date
\* does not pass the question's time filter
SearchOutcomesTimeFiltered(query, k, data, hotels, countries, request_groups, scores) ==
    LET category == CategoryOf[query]
        filtered == SelectSeq(data, LAMBDA a : MatchesTime(Row(a), TimeInfoOf[query]))
    IN  IF category = "cancellation" THEN SearchCancellation(filtered, k)
        ELSE IF category = "lead_time" THEN SearchLeadTime(filtered, k)
        ELSE IF category = "revenue" THEN SearchRevenue(data, TimeInfoOf[query], k)
        ELSE IF category = "duration" THEN SearchDuration(filtered, k)
        ELSE IF category = "family" THEN SearchFamily(filtered, k)
        ELSE IF category = "hotel" THEN SearchHotel(hotels, k)
        ELSE IF category = "country" THEN SearchCountry(countries, k)
        ELSE IF category = "requests" THEN SearchRequests(request_groups, k)
        ELSE SearchDefault(filtered, query, k, scores)

SearchOutcomes(query, k, data, hotels, countries, request_groups, scores) ==
    LET category == CategoryOf[query]
    IN  IF category = "cancellation" THEN SearchCancellation(data, k)
        ELSE IF category = "lead_time" THEN SearchLeadTime(data, k)
        ELSE IF category = "revenue" THEN SearchRevenue(data, TimeInfoOf[query], k)
        ELSE IF category = "duration" THEN SearchDuration(data, k)
        ELSE IF category = "family" THEN SearchFamily(data, k)
        ELSE IF category = "hotel" THEN SearchHotel(hotels, k)
        ELSE IF category = "country" THEN SearchCountry(countries, k)
        ELSE IF category = "requests" THEN SearchRequests(request_groups, k)
        ELSE SearchDefault(data, query, k, scores)

\* result['relevance_score'] = ... on the stored dicts a policy returned
ApplyMarks(scores, marks) ==
    [a \in DOMAIN scores |-> IF a \in DOMAIN marks THEN Some(marks[a]) ELSE scores[a]]

\* the keys of a returned dict that a search can set, as the caller reads them
ViewEntry(e, scores) ==
    [id |-> e.id,
     relevance_score |-> IF IsNone(e.addr) THEN e.relevance_score ELSE scores[Val(e.addr)],
     total_nights |-> e.total_nights]

\* _format_bookings: a fresh dict per booking, with the values it has now
FormatBookings(bookings, scores) ==
    [i \in 1..Len(bookings) |-> ViewEntry(bookings[i], scores)]

RowsOf(bookings) == [i \in 1..Len(bookings) |-> Rows[bookings[i].id]]

RowsAt(addrs) == [i \in 1..Len(addrs) |-> Row(addrs[i])]

(***************************************************************************)
(* State                                                                   *)
(***************************************************************************)

\* bounds of the exploration
MaxCalls == 3

MaxSearches == 1

MaxK == 5

MaxDbChanges == 1

MaxCreates == 1

MaxGenerates == 2

\* get_query_history calls of a run, and the largest limit passed
MaxReads == 1

MaxLimit == 3

\* get_instance and reset_instance calls of a run
MaxGets == 3

MaxResets == 2

\* searches that provide subsets for _generate_answer, and their k
MaxSubsets == 2

SubsetK == 2

\* answer_question retrieves with k=5
AnswerK == 5

VARIABLES
    db,            \* the ids of the rows of the bookings table
    snapshot,      \* data/booking_data.pkl: None, or the ids of the pickled list
    sys,           \* "absent", "ready" (QASystem constructed) or "failed"
    gen,           \* how many times create_data has built a list of dicts
    booking_data,  \* vector_store.booking_data: None or the list of stored dicts
    relevance,     \* the relevance_score key of every stored dict
    groupings,     \* the memoized hotel, country and requests groupings
    search_times,  \* how many searches of each category were timed
    query_cache,   \* QASystem.query_cache: question -> [answer, bookings, category]
    history,       \* the rows of the query_history table
    call,          \* the answer_question call in progress
    last,          \* the outcome of the last completed operation
    stored,        \* per cached question, the response as first returned
    generated,     \* the first direct call of _generate_answer, and its result
    returned,      \* per query_history id, the answer answer_question returned
    suspended,     \* the answer_question call of a second thread, between two of its steps
    singleton,     \* QASystemSingleton._instance, and the QASystems it built and closed
    runs,          \* per question, how often retrieval and generation ran
    counts         \* operations taken so far, for the bounds

vars == <<db, snapshot, sys, gen, booking_data, relevance, groupings, search_times,
          query_cache, history, call, last, stored, generated, returned, suspended, singleton,
          runs, counts>>

storeVars == <<gen, booking_data, relevance, groupings, search_times>>

IdleCall ==
    [pc |-> "idle", query |-> "", query_id |-> None, answer |-> "", bookings |-> <<>>,
     category |-> "", cache_hit |-> FALSE, update_failed |-> FALSE]

NoOutcome ==
    [op |-> "none", raised |-> FALSE, error |-> "", query |-> "", k |-> 0,
     category |-> "", answer |-> "", bookings |-> <<>>, results |-> <<>>,
     query_id |-> None, log_failed |-> FALSE,
     cache_hit |-> FALSE, update_failed |-> FALSE, vector_store |-> "",
     instance |-> None]

NoGroupings == [hotel |-> None, country |-> None, requests |-> None]

\* the prefixes of the table a run can start with
Prefix(n) == [i \in 1..n |-> i]

Init ==
    /\ \E n \in 0..NRows :
          /\ db = 1..n
          /\ snapshot \in {None} \cup {Some(Prefix(m)) : m \in {n} \ {0}}
    /\ sys = "absent"
    /\ gen = 0
    /\ booking_data = None
    /\ relevance = <<>>
    /\ groupings = NoGroupings
    /\ search_times = <<>>
    /\ query_cache = <<>>
    /\ history = <<>>
    /\ call = IdleCall
    /\ last = NoOutcome
    /\ stored = <<>>
    /\ generated = None
    /\ returned = <<>>
    /\ suspended = IdleCall
    /\ singleton = [instance |-> None, built |-> 0, closed |-> {}]
    /\ runs = [q \in AskedQuestions |-> [search |-> 0, generate |-> 0]]
    /\ counts = [calls |-> 0, searches |-> 0, changes |-> 0, creates |-> 0,
                 generates |-> 0, reads |-> 0, gets |-> 0, resets |-> 0]

\* the dicts create_data builds, one per row, in the order of the query
NewDicts(g, ids) == [i \in 1..Len(ids) |-> <<g, ids[i]>>]

\* the heap after allocating new dicts: they have no relevance_score key
Allocate(scores, addrs) ==
    [a \in DOMAIN scores \cup Elems(addrs) |->
        IF a \in DOMAIN scores THEN scores[a] ELSE None]

\* d[key] = value on a dict modelled as a function
Put(d, key, value) ==
    [x \in DOMAIN d \cup {key} |-> IF x = key THEN value ELSE d[x]]

(***************************************************************************)
(* Construction and the store's operations                                 *)
(***************************************************************************)

Outcome(op, query, k, category) ==
    [NoOutcome EXCEPT !.op = op, !.query = query, !.k = k, !.category = category]

RaisedOutcome(op, query, k, error) ==
    [NoOutcome EXCEPT !.op = op, !.query = query, !.k = k, !.raised = TRUE,
                      !.error = error]

\* _precompute_groupings: the three memoized groupings, filled on first use
PrecomputeGroupings(data) ==
    [hotel    |-> Some(GetHotelGroupings(data)),
     country  |-> Some(GetCountryGroupings(data)),
     requests |-> Some(GetRequestGroupings(data))]

\* QASystem(): BookingVectorStore() loads the snapshot or reads the table, then
\* precomputes the groupings; a snapshot that cannot be unpickled falls back to
\* the table; an empty table leaves booking_data None and the precompute raises
Build(op, qa) ==
    \E load_ok \in (IF IsNone(snapshot) THEN {FALSE} ELSE BOOLEAN) :
       LET ids  == IF load_ok THEN Val(snapshot) ELSE QueryAllBookings(db)
           data == NewDicts(gen + 1, ids)
       IN  IF ~load_ok /\ db = {}
           THEN /\ sys' = "failed"
                /\ last' = RaisedOutcome(op, "", 0, "TypeError")
                /\ UNCHANGED <<snapshot, gen, booking_data, relevance, groupings>>
           ELSE /\ sys' = "ready"
                /\ gen' = gen + 1
                /\ booking_data' = Some(data)
                /\ relevance' = Allocate(relevance, data)
                /\ snapshot' = IF load_ok THEN snapshot ELSE Some(ids)
                /\ groupings' = PrecomputeGroupings(data)
                /\ last' = [Outcome(op, "", 0, "") EXCEPT !.instance = qa]

\* QASystem() constructed directly
Construct ==
    /\ sys # "ready"
    /\ Build("construct", None)
    /\ UNCHANGED <<db, search_times, query_cache, history, call, stored, generated, returned, suspended, singleton, runs, counts>>

\* a create_data() that clears the memoized groupings and builds them again
CreateDataRegrouping ==
    /\ sys = "ready"
    /\ call.pc = "idle"
    /\ counts.creates < MaxCreates
    /\ counts' = [counts EXCEPT !.creates = @ + 1]
    /\ last' = Outcome("create_data", "", 0, "")
    /\ IF db = {}
       THEN UNCHANGED <<snapshot, gen, booking_data, relevance, groupings>>
       ELSE LET ids  == QueryAllBookings(db)
                data == NewDicts(gen + 1, ids)
            IN  /\ gen' = gen + 1
                /\ booking_data' = Some(data)
                /\ relevance' = Allocate(relevance, data)
                /\ snapshot' = Some(ids)
                /\ groupings' = PrecomputeGroupings(data)
    /\ UNCHANGED <<db, sys, search_times, query_cache, history, call, stored, generated, returned, suspended, singleton, runs>>

\* create_data() called again on a constructed store: a new list of new dicts,
\* saved to the snapshot; the memoized groupings are left as they are
CreateData ==
    /\ sys = "ready"
    /\ call.pc = "idle"
    /\ counts.creates < MaxCreates
    /\ counts' = [counts EXCEPT !.creates = @ + 1]
    /\ last' = Outcome("create_data", "", 0, "")
    /\ IF db = {}
       THEN UNCHANGED <<snapshot, gen, booking_data, relevance>>
       ELSE LET ids  == QueryAllBookings(db)
                data == NewDicts(gen + 1, ids)
            IN  /\ gen' = gen + 1
                /\ booking_data' = Some(data)
                /\ relevance' = Allocate(relevance, data)
                /\ snapshot' = Some(ids)
    /\ UNCHANGED <<db, sys, groupings, search_times, query_cache, history, call,
                   stored, generated, returned, suspended, singleton, runs>>

\* a row is added to the bookings table by another program
DbInsert ==
    /\ call.pc = "idle"
    /\ counts.changes < MaxDbChanges
    /\ \E id \in RowIds \ db : db' = db \cup {id}
    /\ counts' = [counts EXCEPT !.changes = @ + 1]
    /\ UNCHANGED <<snapshot, sys, storeVars, query_cache, history, call, last,
                   stored, generated, returned, suspended, singleton, runs>>

\* a row is removed from the bookings table by another program
DbDelete ==
    /\ call.pc = "idle"
    /\ counts.changes < MaxDbChanges
    /\ \E id \in db : db' = db \ {id}
    /\ counts' = [counts EXCEPT !.changes = @ + 1]
    /\ UNCHANGED <<snapshot, sys, storeVars, query_cache, history, call, last,
                   stored, generated, returned, suspended, singleton, runs>>

\* self.search_times[category].append(search_time)
Timed(times, category) ==
    Put(times, category, IF category \in DOMAIN times THEN times[category] + 1 ELSE 1)

\* vector_store.search(query, k) called directly, for one of the given
\* questions and sizes, at most so many times
SearchWith(queries, sizes, most) ==
    /\ sys = "ready"
    /\ call.pc = "idle"
    /\ counts.searches < most
    /\ \E query \in queries, k \in sizes :
          \E o \in SearchOutcomes(query, k, Val(booking_data), Val(groupings.hotel),
                                  Val(groupings.country), Val(groupings.requests),
                                  relevance) :
             IF o.raised
             THEN /\ last' = RaisedOutcome("search", query, k, o.error)
                  /\ UNCHANGED <<relevance, search_times>>
             ELSE /\ relevance' = ApplyMarks(relevance, o.marks)
                  /\ search_times' = Timed(search_times, CategoryOf[query])
                  /\ last' = [Outcome("search", query, k, CategoryOf[query]) EXCEPT
                                 !.bookings = o.results,
                                 !.results = FormatBookings(o.results, relevance')]
    /\ counts' = [counts EXCEPT !.searches = @ + 1]
    /\ UNCHANGED <<db, snapshot, sys, gen, booking_data, groupings, query_cache,
                   history, call, stored, generated, returned, suspended, singleton, runs>>

\* search(query, k) for any question and any k up to the bound
Search == SearchWith(Questions, 0..MaxK, MaxSearches)

\* one question for each retrieval policy: the eight categories, a revenue
\* question with a time filter, and the default search
PolicyQuestions == {
    "Why do guests cancel?",
    "What is the average lead time for bookings?",
    "What is the total revenue?",
    "What is the total revenue for July 2017?",
    "What is the average length of stay?",
    "How many bookings include children?",
    "Which hotels have the most bookings?",
    "Which country has most guests?",
    "What is the average number of special requests?",
    "city guests" }

SearchPolicy == SearchWith(PolicyQuestions, 0..MaxK, MaxSearches)

\* questions answered from a memoized grouping
GroupingQuestions == {
    "Which hotels have the most bookings?",
    "Which country has most guests?" }

\* search(query, 5) for a question of the hotel or the country category
SearchGrouping == SearchWith(GroupingQuestions, {AnswerK}, MaxSearches)

\* questions whose retrieval provides the subsets for _generate_answer: the
\* cancellation and lead-time policies return stored records and annotate
\* them, the lead-time policy samples
SubsetQuestions == {
    "Why do guests cancel?",
    "What is the total revenue?" }

\* search(query, k) for the subsets
SearchSubset == SearchWith(SubsetQuestions, {SubsetK}, MaxSubsets)

\* the questions _generate_answer is called with
GenerateQuestions == {
    "What is the cancellation rate?",
    "Why do guests cancel?",
    "What is the average lead time for bookings?",
    "What is the total revenue?",
    "What is the average length of stay?",
    "How many bookings include children?",
    "Which hotels have the most bookings?",
    "What countries do most guests come from?",
    "What is the average number of special requests?" }

\* the lists a caller of _generate_answer holds: the one the last operation
\* returned, and the one of the first call
HeldSubsets ==
    {last.bookings} \cup (IF IsNone(generated) THEN {} ELSE {Val(generated).bookings})

\* what one call of _generate_answer was given, what it could read, and what
\* it returned
GenerateRecord(query, bookings, category, g) ==
    [query |-> query, bookings |-> bookings, category |-> category,
     data |-> booking_data, scores |-> relevance,
     raised |-> g.raised, answer |-> g.answer]

\* a _generate_answer that leaves out the records of the subset whose
\* relevance_score is not 5 now
GenerateFromScored ==
    /\ sys = "ready"
    /\ call.pc = "idle"
    /\ counts.generates < MaxGenerates
    /\ counts' = [counts EXCEPT !.generates = @ + 1]
    /\ \E query \in GenerateQuestions, bookings \in HeldSubsets :
          LET category == DeterminedCategoryOf[query]
              scored == SelectSeq(bookings,
                            LAMBDA e : ViewEntry(e, relevance).relevance_score = Some(5))
              g == GenerateAnswer(query, RowsOf(scored), category,
                                  RowsAt(Val(booking_data)))
          IN  /\ last' = [Outcome("generate", query, 0, category) EXCEPT
                             !.raised = g.raised,
                             !.error = IF g.raised THEN "TypeError" ELSE "",
                             !.answer = g.answer,
                             !.bookings = bookings]
              /\ generated' = IF IsNone(generated)
                              THEN Some(GenerateRecord(query, bookings, category, g))
                              ELSE generated
    /\ UNCHANGED <<db, snapshot, sys, storeVars, query_cache, history, call, stored,
                   returned, suspended, singleton, runs>>

\* qa._generate_answer(query, relevant_bookings, category) called directly with
\* a list a search returned and the category of the question
Generate ==
    /\ sys = "ready"
    /\ call.pc = "idle"
    /\ counts.generates < MaxGenerates
    /\ counts' = [counts EXCEPT !.generates = @ + 1]
    /\ \E query \in GenerateQuestions, bookings \in HeldSubsets :
          LET category == DeterminedCategoryOf[query]
              g == GenerateAnswer(query, RowsOf(bookings), category,
                                  RowsAt(Val(booking_data)))
          IN  /\ last' = [Outcome("generate", query, 0, category) EXCEPT
                             !.raised = g.raised,
                             !.error = IF g.raised THEN "TypeError" ELSE "",
                             !.answer = g.answer,
                             !.bookings = bookings]
              /\ generated' = IF IsNone(generated)
                              THEN Some(GenerateRecord(query, bookings, category, g))
                              ELSE generated
    /\ UNCHANGED <<db, snapshot, sys, storeVars, query_cache, history, call, stored,
                   returned, suspended, singleton, runs>>

\* BookingVectorStore.index: set to None by __init__ and assigned nowhere else;
\* a value would be Some(ntotal of the index)
index == None

\* the property ntotal of the store
Ntotal(data) == IF IsNone(data) THEN 0 ELSE Len(Val(data))

\* the vector_store field of the health response
OperationalStatus(n) == "operational (" \o IntStr(n) \o " vectors)"

\* GET /health on a constructed singleton: the store's part of the response
\* (on an absent singleton get_instance() first runs Construct)
HealthCheck ==
    /\ sys = "ready"
    /\ call.pc = "idle"
    /\ last' = [Outcome("health_check", "", 0, "") EXCEPT
                   !.vector_store = IF ~IsNone(index) /\ Val(index) > 0
                                    THEN OperationalStatus(Val(index))
                                    ELSE "empty"]
    /\ UNCHANGED <<db, snapshot, sys, storeVars, query_cache, history, call, stored, generated, returned, suspended, singleton,
                   runs, counts>>

(***************************************************************************)
(* QASystem.answer_question, one action per step                           *)
(***************************************************************************)

\* the call ends by raising: nothing is returned to the caller
Raise(error) ==
    /\ last' = [RaisedOutcome("answer_question", call.query, AnswerK, error) EXCEPT
                   !.query_id = call.query_id]
    /\ call' = IdleCall

\* answer_question(query) is called and runs _log_query: a new query_history
\* row is committed; a failing insert or commit raises out of the call
AskWith(queries) ==
    /\ sys = "ready"
    /\ call.pc = "idle"
    /\ counts.calls < MaxCalls
    /\ counts' = [counts EXCEPT !.calls = @ + 1]
    /\ \E query \in queries, committed \in BOOLEAN :
          IF committed
          THEN /\ history' = Append(history,
                                    [id |-> Len(history) + 1, query_text |-> query,
                                     response_text |-> None,
                                     relevant_booking_ids |-> None])
               /\ call' = [IdleCall EXCEPT !.pc = "cache", !.query = query,
                                           !.query_id = Some(Len(history) + 1)]
               /\ UNCHANGED last
          ELSE /\ last' = [RaisedOutcome("answer_question", query, AnswerK,
                                         "SQLAlchemyError") EXCEPT
                              !.log_failed = TRUE]
               /\ UNCHANGED <<history, call>>
    /\ UNCHANGED <<db, snapshot, sys, storeVars, query_cache, stored, generated, returned, suspended, singleton, runs>>

\* answer_question called with any of the asked questions
AskQuestion == AskWith(AskedQuestions)

\* if query in self.query_cache
CheckCache ==
    /\ call.pc = "cache"
    /\ IF call.query \in DOMAIN query_cache
       THEN call' = [call EXCEPT !.pc = "update", !.cache_hit = TRUE,
                                 !.answer = query_cache[call.query].answer,
                                 !.bookings = query_cache[call.query].bookings,
                                 !.category = query_cache[call.query].category]
       ELSE call' = [call EXCEPT !.pc = "search"]
    /\ UNCHANGED <<db, snapshot, sys, storeVars, query_cache, history, last, stored, generated, returned, suspended, singleton,
                   runs, counts>>

\* relevant_bookings = self.vector_store.search(query, k=5)
VectorSearch ==
    /\ call.pc = "search"
    /\ runs' = [runs EXCEPT ![call.query].search = @ + 1]
    /\ \E o \in SearchOutcomes(call.query, AnswerK, Val(booking_data),
                               Val(groupings.hotel), Val(groupings.country),
                               Val(groupings.requests), relevance) :
          IF o.raised
          THEN /\ Raise(o.error)
               /\ UNCHANGED <<relevance, search_times>>
          ELSE /\ relevance' = ApplyMarks(relevance, o.marks)
               /\ search_times' = Timed(search_times, CategoryOf[call.query])
               /\ call' = [call EXCEPT !.pc = "generate", !.bookings = o.results]
               /\ UNCHANGED last
    /\ UNCHANGED <<db, snapshot, sys, gen, booking_data, groupings, query_cache,
                   history, stored, generated, returned, suspended, singleton, counts>>

\* the response dict built from an answer, a list of bookings and a category
Response(query, answer, bookings, category, scores) ==
    [query |-> query, answer |-> answer,
     relevant_bookings |-> FormatBookings(bookings, scores), category |-> category]

\* a cache insertion that keeps the entry another call has already inserted
GenerateAndCacheKeepFirst ==
    /\ call.pc = "generate"
    /\ runs' = [runs EXCEPT ![call.query].generate = @ + 1]
    /\ LET category == DeterminedCategoryOf[call.query]
           g == GenerateAnswer(call.query, RowsOf(call.bookings), category,
                               RowsAt(Val(booking_data)))
       IN  IF g.raised
           THEN /\ Raise("TypeError")
                /\ UNCHANGED <<query_cache, stored>>
           ELSE /\ call' = [call EXCEPT !.pc = "update", !.answer = g.answer,
                                        !.category = category]
                /\ query_cache' = IF call.query \in DOMAIN query_cache
                                   THEN query_cache
                                   ELSE Put(query_cache, call.query,
                                            [answer |-> g.answer, bookings |-> call.bookings,
                                             category |-> category])
                /\ stored' = Put(stored, call.query,
                                 Response(call.query, g.answer, call.bookings,
                                          category, relevance))
                /\ UNCHANGED last
    /\ UNCHANGED <<db, snapshot, sys, storeVars, history, generated, returned, suspended, singleton, counts>>

\* _determine_query_category, _generate_answer and the cache insertion
GenerateAndCache ==
    /\ call.pc = "generate"
    /\ runs' = [runs EXCEPT ![call.query].generate = @ + 1]
    /\ LET category == DeterminedCategoryOf[call.query]
           g == GenerateAnswer(call.query, RowsOf(call.bookings), category,
                               RowsAt(Val(booking_data)))
       IN  IF g.raised
           THEN /\ Raise("TypeError")
                /\ UNCHANGED <<query_cache, stored>>
           ELSE /\ call' = [call EXCEPT !.pc = "update", !.answer = g.answer,
                                        !.category = category]
                /\ query_cache' = Put(query_cache, call.query,
                                      [answer |-> g.answer, bookings |-> call.bookings,
                                       category |-> category])
                /\ stored' = Put(stored, call.query,
                                 Response(call.query, g.answer, call.bookings,
                                          category, relevance))
                /\ UNCHANGED last
    /\ UNCHANGED <<db, snapshot, sys, storeVars, history, generated, returned, suspended, singleton, counts>>

\* json.dumps of the ids of the bookings, kept as the list of ids
BookingIds(bookings) == [i \in 1..Len(bookings) |-> bookings[i].id]

\* _update_query_history without its except clause: a failing commit raises
\* out of answer_question
UpdateQueryHistoryUncaught ==
    /\ call.pc = "update"
    /\ \E committed \in BOOLEAN :
          IF committed
          THEN /\ history' =
                     [history EXCEPT ![Val(call.query_id)] =
                         [@ EXCEPT !.response_text = Some(call.answer),
                                   !.relevant_booking_ids =
                                       IF Len(call.bookings) > 0
                                       THEN Some(BookingIds(call.bookings)) ELSE @]]
               /\ call' = [call EXCEPT !.pc = "return"]
               /\ UNCHANGED last
          ELSE /\ Raise("SQLAlchemyError")
               /\ UNCHANGED history
    /\ UNCHANGED <<db, snapshot, sys, storeVars, query_cache, stored, generated, returned, suspended, singleton, runs, counts>>

\* _update_query_history without its rollback: the answer written before the
\* failing commit stays in the row
UpdateQueryHistoryNoRollback ==
    /\ call.pc = "update"
    /\ \E committed \in BOOLEAN :
          /\ history' = [history EXCEPT ![Val(call.query_id)] =
                            [@ EXCEPT !.response_text = Some(call.answer)]]
          /\ call' = [call EXCEPT !.pc = "return", !.update_failed = ~committed]
    /\ UNCHANGED <<db, snapshot, sys, storeVars, query_cache, last, stored, generated, returned, suspended, singleton, runs,
                   counts>>

\* _update_query_history: the row gets the answer and the ids and is
\* committed; any exception is caught and the transaction rolled back
UpdateQueryHistory ==
    /\ call.pc = "update"
    /\ \E committed \in BOOLEAN :
          IF committed
          THEN /\ history' =
                     [history EXCEPT ![Val(call.query_id)] =
                         [@ EXCEPT !.response_text = Some(call.answer),
                                   !.relevant_booking_ids =
                                       IF Len(call.bookings) > 0
                                       THEN Some(BookingIds(call.bookings)) ELSE @]]
               /\ call' = [call EXCEPT !.pc = "return"]
          ELSE /\ call' = [call EXCEPT !.pc = "return", !.update_failed = TRUE]
               /\ UNCHANGED history
    /\ UNCHANGED <<db, snapshot, sys, storeVars, query_cache, last, stored, generated, returned, suspended, singleton, runs,
                   counts>>

\* return {"query", "answer", "relevant_bookings": _format_bookings(...), "category"}
Return ==
    /\ call.pc = "return"
    /\ last' = [Outcome("answer_question", call.query, AnswerK, call.category) EXCEPT
                   !.answer = call.answer,
                   !.bookings = call.bookings,
                   !.results = FormatBookings(call.bookings, relevance),
                   !.query_id = call.query_id,
                   !.cache_hit = call.cache_hit,
                   !.update_failed = call.update_failed]
    /\ returned' = Put(returned, Val(call.query_id), call.answer)
    /\ call' = IdleCall
    /\ UNCHANGED <<db, snapshot, sys, storeVars, query_cache, history, stored, generated,
                   suspended, singleton, runs, counts>>

\* the questions asked before the history is read: one that is answered and
\* one whose retrieval can raise
HistoryQuestions == {
    "Why do guests cancel?",
    "How many bookings include children?" }

AskForHistory == AskWith(HistoryQuestions)

\* one dict of the list get_query_history returns (the timestamp is left out)
FormatHistory(qh) ==
    [id |-> qh.id, query |-> qh.query_text, answer |-> qh.response_text,
     relevant_booking_ids |-> IF IsNone(qh.relevant_booking_ids) THEN <<>>
                              ELSE Val(qh.relevant_booking_ids)]

\* a history query without the descending order
HistoryPageOldestFirst(rows, limit) ==
    [i \in 1..Min(limit, Len(rows)) |-> FormatHistory(rows[i])]

\* query(QueryHistory).order_by(QueryHistory.id.desc()).limit(limit).all(),
\* formatted; the rows of the table are kept in the order of their ids
HistoryPage(rows, limit) ==
    [i \in 1..Min(limit, Len(rows)) |-> FormatHistory(rows[Len(rows) + 1 - i])]

\* get_query_history(limit)
GetQueryHistory ==
    /\ sys = "ready"
    /\ call.pc = "idle"
    /\ counts.reads < MaxReads
    /\ counts' = [counts EXCEPT !.reads = @ + 1]
    /\ \E limit \in 0..MaxLimit :
          last' = [Outcome("get_query_history", "", limit, "") EXCEPT
                      !.results = HistoryPage(history, limit)]
    /\ UNCHANGED <<db, snapshot, sys, storeVars, query_cache, history, call, stored,
                   generated, returned, suspended, singleton, runs>>

\* the question put to the QASystem the singleton hands out
SingletonQuestions == {"Why do guests cancel?"}

AskSingleton == AskWith(SingletonQuestions)

\* a get_instance without the test of _instance: every call constructs
GetInstanceAlwaysNew ==
    /\ call.pc = "idle"
    /\ counts.gets < MaxGets
    /\ counts' = [counts EXCEPT !.gets = @ + 1]
    /\ Build("get_instance", Some(singleton.built + 1))
    /\ query_cache' = <<>>
    /\ stored' = <<>>
    /\ search_times' = <<>>
    /\ singleton' = IF sys' = "ready"
                    THEN [singleton EXCEPT !.instance = Some(singleton.built + 1),
                                           !.built = @ + 1]
                    ELSE singleton
    /\ UNCHANGED <<db, history, call, generated, returned, suspended, runs>>

\* QASystemSingleton.get_instance(): with _instance None it constructs a
\* QASystem, whose query_cache and search_times start empty, and keeps it; a
\* constructor that raises leaves _instance None; otherwise _instance is
\* returned as it is
GetInstance ==
    /\ call.pc = "idle"
    /\ counts.gets < MaxGets
    /\ counts' = [counts EXCEPT !.gets = @ + 1]
    /\ IF IsNone(singleton.instance)
       THEN /\ Build("get_instance", Some(singleton.built + 1))
            /\ query_cache' = <<>>
            /\ stored' = <<>>
            /\ search_times' = <<>>
            /\ singleton' = IF sys' = "ready"
                            THEN [singleton EXCEPT !.instance = Some(singleton.built + 1),
                                                   !.built = @ + 1]
                            ELSE singleton
       ELSE /\ last' = [Outcome("get_instance", "", 0, "") EXCEPT
                           !.instance = singleton.instance]
            /\ UNCHANGED <<snapshot, sys, storeVars, query_cache, stored, singleton>>
    /\ UNCHANGED <<db, history, call, generated, returned, suspended, runs>>

\* QASystemSingleton.reset_instance(): closes _instance and forgets it; with
\* _instance None nothing happens
ResetInstance ==
    /\ call.pc = "idle"
    /\ counts.resets < MaxResets
    /\ counts' = [counts EXCEPT !.resets = @ + 1]
    /\ last' = Outcome("reset_instance", "", 0, "")
    /\ IF IsNone(singleton.instance)
       THEN UNCHANGED <<sys, singleton>>
       ELSE /\ sys' = "absent"
            /\ singleton' = [singleton EXCEPT
                                !.instance = None,
                                !.closed = @ \cup {Val(singleton.instance)}]
    /\ UNCHANGED <<db, snapshot, storeVars, query_cache, history, call, stored,
                   generated, returned, suspended, runs>>

\* a sequential series of answer_question calls on one system
Next ==
    \/ Construct
    \/ AskQuestion
    \/ CheckCache
    \/ VectorSearch
    \/ GenerateAndCache
    \/ UpdateQueryHistory
    \/ Return

Spec == Init /\ [][Next]_vars

\* the store driven directly, while the table changes under it
NextStore ==
    \/ Construct
    \/ CreateData
    \/ DbInsert
    \/ DbDelete
    \/ Search

SpecStore == Init /\ [][NextStore]_vars

\* answer_question calls and reads of the query history, one after another
NextHistory ==
    \/ Construct
    \/ AskForHistory
    \/ CheckCache
    \/ VectorSearch
    \/ GenerateAndCache
    \/ UpdateQueryHistory
    \/ Return
    \/ GetQueryHistory

SpecHistory == Init /\ [][NextHistory]_vars

\* searches under every retrieval policy on one constructed store
NextPolicies ==
    \/ Construct
    \/ SearchPolicy

SpecPolicies == Init /\ [][NextPolicies]_vars

\* search(query, k) with questions that name a month or a year
SearchVariant == SearchWith(VariantQuestions, {0, 2, MaxK}, MaxSearches)

NextVariants ==
    \/ Construct
    \/ SearchVariant

SpecVariants == Init /\ [][NextVariants]_vars

\* answer_question with cancellation questions, over tables that lost a row
CancellationQuestions == {"Why do guests cancel?", "WHY DO GUESTS CANCEL?"}

AskCancellation == AskWith(CancellationQuestions)

NextCancellation ==
    \/ DbDelete
    \/ Construct
    \/ AskCancellation
    \/ CheckCache
    \/ VectorSearch
    \/ GenerateAndCache
    \/ UpdateQueryHistory
    \/ Return

SpecCancellation == Init /\ [][NextCancellation]_vars

\* answer_question called from two threads on one QASystem: the steps of a
\* call are those of the single-threaded call, and between two of them the
\* interpreter may switch to the other thread.  call is the call of the
\* running thread, suspended that of the other.
SwitchThread ==
    /\ sys = "ready"
    /\ call # suspended
    /\ call' = suspended
    /\ suspended' = call
    /\ UNCHANGED <<db, snapshot, sys, storeVars, query_cache, history, last, stored,
                   generated, returned, singleton, runs, counts>>

ConcurrentQuestions == {"What is the average lead time for bookings?"}

AskConcurrent == AskWith(ConcurrentQuestions)

NextConcurrent ==
    \/ Construct
    \/ AskConcurrent
    \/ SwitchThread
    \/ CheckCache
    \/ VectorSearch
    \/ GenerateAndCache
    \/ UpdateQueryHistory
    \/ Return

SpecConcurrent == Init /\ [][NextConcurrent]_vars

\* get_instance, reset_instance and answer_question on the instance handed
\* out, one call after another
NextSingleton ==
    \/ GetInstance
    \/ ResetInstance
    \/ AskSingleton
    \/ CheckCache
    \/ VectorSearch
    \/ GenerateAndCache
    \/ UpdateQueryHistory
    \/ Return

SpecSingleton == Init /\ [][NextSingleton]_vars

\* the health probe of a store whose table changes and is read again
NextProbe ==
    \/ Construct
    \/ CreateData
    \/ DbInsert
    \/ DbDelete
    \/ HealthCheck

SpecProbe == Init /\ [][NextProbe]_vars

\* _generate_answer called directly, between searches
NextGenerate ==
    \/ Construct
    \/ SearchSubset
    \/ Generate

SpecGenerate == Init /\ [][NextGenerate]_vars

\* the memoized groupings of a store whose table changes and is read again
NextGroupings ==
    \/ Construct
    \/ CreateData
    \/ DbInsert
    \/ DbDelete
    \/ SearchGrouping

SpecGroupings == Init /\ [][NextGroupings]_vars

(***************************************************************************)
(* Properties                                                              *)
(***************************************************************************)

\* an answer_question call has returned its response dict
Answered == last.op = "answer_question" /\ ~last.raised

\* the keys of keyword_categories
KeywordLabels == {keyword_categories[i].category : i \in 1..Len(keyword_categories)}

NineCategories == {"cancellation", "lead_time", "revenue", "duration", "family",
                   "hotel", "country", "requests", "general"}

\* the question contains no keyword of any category
NoKeyword(query) ==
    \A i \in 1..Len(keyword_categories) :
        \A j \in 1..Len(keyword_categories[i].keywords) :
            ~Contains(LowerOf[query], keyword_categories[i].keywords[j])

C2_AtMostK ==
    last.op = "search" => ~last.raised /\ Len(last.results) <= last.k

\* the ids of the dicts in booking_data
CurrentIds == {a[2] : a \in Elems(Val(booking_data))}

\* C3: whatever was done to the store before, every record a search returns is
\* a record of booking_data as it is at the time of the call.
C3_ReturnedAreCurrent ==
    [][(counts'.searches # counts.searches /\ ~last'.raised)
          => \A i \in 1..Len(last'.bookings) : last'.bookings[i].id \in CurrentIds']_vars

\* C4: a repeated question gets exactly the answer, category and subset that
\* were stored for it, relevance_score included; only asked questions are cached.
C4_CacheReturnsStored ==
    /\ (Answered /\ last.cache_hit) =>
           /\ last.answer = stored[last.query].answer
           /\ last.category = stored[last.query].category
           /\ last.results = stored[last.query].relevant_bookings
    /\ \A q \in DOMAIN query_cache : runs[q].generate > 0

\* the questions some call has logged
Logged == {history[i].query_text : i \in 1..Len(history)}

\* C5: between calls, every question asked so far has had retrieval and
\* generation run exactly once, however often it was asked.
C5_OncePerQuestion ==
    call.pc = "idle" =>
        \A q \in Logged : runs[q].search = 1 /\ runs[q].generate = 1

OwnRecord(c) ==
    /\ c.query_id = Some(Len(history))
    /\ history[Len(history)].query_text = c.query

C7_UpdateFailureHarmless ==
    /\ [][call.pc = "update" =>
             /\ call'.pc = "return"
             /\ last' = last
             /\ call'.answer = call.answer
             /\ call'.bookings = call.bookings
             /\ call'.category = call.category
             /\ relevance' = relevance /\ query_cache' = query_cache
             /\ call'.update_failed => history' = history]_vars
    /\ []((Answered /\ last.update_failed) =>
            /\ last.answer = query_cache[last.query].answer
            /\ last.bookings = query_cache[last.query].bookings
            /\ last.category = query_cache[last.query].category
            /\ IsNone(history[Val(last.query_id)].response_text))

\* a call whose history update failed has returned a subset and an answer
C7_Witness ==
    /\ Answered
    /\ last.update_failed
    /\ Len(last.results) > 0
    /\ last.answer # ""

\* C8: when the insert of the question into query_history fails, the failure
\* is caught and the call still returns an answer.
C8_LogFailureCaught ==
    (last.op = "answer_question" /\ last.log_failed) =>
        ~last.raised /\ last.answer # ""

\* C9: with an empty table and no snapshot the system comes up, and every
\* question then gets the no-data answer, an empty subset and its category.
C9_EmptyStoreAnswers ==
    /\ (db = {} /\ IsNone(snapshot) /\ last.op = "construct") =>
           sys = "ready" /\ ~last.raised
    /\ (db = {} /\ last.op = "answer_question") =>
           /\ Answered
           /\ last.answer = NoDataAnswer
           /\ last.results = <<>>
           /\ last.category = CategoryOf[last.query]

\* C10: on a constructed system a call that got past its log step never
\* raises: a failure in retrieval or generation ends in a generic or no-data
\* answer.
C10_NeverRaises ==
    (last.op = "answer_question" /\ ~last.log_failed) =>
        /\ ~last.raised
        /\ last.answer # ""
        /\ last.category \in KeywordLabels \cup {"general"}

\* a search of the revenue category with a time filter has completed
FilteredRevenueSearch ==
    /\ last.op = "search"
    /\ CategoryOf[last.query] = "revenue"
    /\ ~TimeInfoEmpty(TimeInfoOf[last.query])

\* the record has an arrival date, in the year and the month the filter names
DateMatches(r, time_info) ==
    /\ ~IsNone(r.arrival_date)
    /\ (IsNone(time_info.year) \/ Val(r.arrival_date).year = Val(time_info.year))
    /\ (IsNone(time_info.month) \/ Val(r.arrival_date).month = Val(time_info.month))

\* C11: a revenue question whose time filter matches no record of the record
\* set is no error: the search returns an empty subset, and the answer
\* generated from it is the fixed no-data message.
C11_NoMatchNoData ==
    (/\ FilteredRevenueSearch
     /\ \A a \in Elems(Val(booking_data)) : ~DateMatches(Row(a), TimeInfoOf[last.query]))
    => /\ ~last.raised
       /\ last.results = <<>>
       /\ GenerateAnswer(last.query, RowsOf(last.bookings), "revenue",
                         RowsAt(Val(booking_data))).answer = NoDataAnswer

\* the ids of a list of returned bookings
ResultIds(results) == {results[i].id : i \in 1..Len(results)}

\* C15: a revenue search with a time filter returns all the non-canceled
\* records whose arrival date matches the filter, however many there are, and
\* no record whose arrival date does not match it.
C15_AllMatching ==
    (FilteredRevenueSearch /\ last.k > 0) =>
        /\ ~last.raised
        /\ ResultIds(last.results) =
              {a[2] : a \in {b \in Elems(Val(booking_data)) :
                               /\ ~Row(b).is_canceled
                               /\ DateMatches(Row(b), TimeInfoOf[last.query])}}

\* C17: in the country grouping (built like the hotel grouping) no group is
\* keyed by a null value: a record whose country is NULL is in the group
\* keyed "Unknown".
C17_NullIsUnknown ==
    sys = "ready" =>
        \A i \in 1..Len(Val(groupings.country)) :
            LET group == Val(groupings.country)[i]
            IN  /\ ~IsNone(group.key)
                /\ \A j \in 1..Len(group.members) :
                       IsNone(Row(group.members[j]).country) => group.key = Some("Unknown")

\* C18: every record a search returns, whatever the category, carries a
\* relevance_score; for the family policy too, whether or not k records with
\* children or babies exist.
C18_EveryResultScored ==
    (last.op = "search" /\ ~last.raised) =>
        \A i \in 1..Len(last.results) : ~IsNone(last.results[i].relevance_score)

\* C19: no operation adds a key to, or changes a field of, a record held in
\* booking_data: the stored records carry no relevance_score.
C19_StoreReadOnly ==
    sys = "ready" =>
        \A a \in Elems(Val(booking_data)) : IsNone(relevance[a])

\* C20: the health probe reports the record store as populated, with its size
\* n, whenever booking_data holds n > 0 records, and as empty only when no
\* record is loaded.
C20_ProbeReportsSize ==
    last.op = "health_check" =>
        last.vector_store = IF Ntotal(booking_data) > 0
                            THEN OperationalStatus(Ntotal(booking_data))
                            ELSE "empty"

\* C16: the three groupings are built once, by the construction of the store,
\* from the record set the construction loaded, so before any search; no
\* search, and no later replacement or change of the record set, changes the
\* groupings the searches read.
C16_GroupedOnce ==
    /\ [](sys # "ready" => groupings = NoGroupings)
    /\ [][(sys # "ready" /\ sys' = "ready")
             => groupings' = PrecomputeGroupings(Val(booking_data'))]_vars
    /\ [][sys = "ready" => groupings' = groupings]_vars

\* the table changed, the record set was replaced, and a search then ran on
\* groupings that hold other records than the record set does
C16_Witness ==
    /\ last.op = "search"
    /\ ~last.raised
    /\ counts.creates > 0
    /\ LET hotels == Val(groupings.hotel)
       IN  CurrentIds # UNION {{a[2] : a \in Elems(hotels[i].members)} :
                                  i \in 1..Len(hotels)}

\* a direct call of _generate_answer has completed
Generated == last.op = "generate"

AllRecords == Elems(Val(booking_data))

AllCanceled == {a \in AllRecords : Row(a).is_canceled}

Abs(n) == IF n < 0 THEN -n ELSE n

\* num/den as a percentage in hundredths of a percent, rounded to the nearest
Hundredths(num, den) == (20000 * num + den) \div (2 * den)

\* v hundredths written with two decimals
TwoDecimals(v) == IntStr(v \div 100) \o "." \o Pad2(v % 100)

\* the answer to a cancellation-rate question has been generated from a
\* non-empty subset
RateAnswered ==
    /\ Generated
    /\ last.category = "cancellation"
    /\ Contains(LowerOf[last.query], "rate")
    /\ Len(last.bookings) > 0

\* C13: the answer to a cancellation question containing "rate" reports the N
\* records of the whole record set, the M canceled ones among them and M/N as
\* a percentage with two decimals, whatever the subset is; 370 of 1000 is
\* 37.00; the answer contains "cancellation rate", "%", "canceled", "found".
C13_RateOverWholeSet ==
    /\ TwoDecimals(Hundredths(370, 1000)) = "37.00"
    /\ Fmt(100 * 370, 1000, 2) = "37.00"
    /\ RateAnswered =>
          LET N == Cardinality(AllRecords)
              M == Cardinality(AllCanceled)
          IN  /\ ~last.raised
              /\ last.answer = "I found that the overall cancellation rate is "
                               \o TwoDecimals(Hundredths(M, N))
                               \o "%. Out of " \o IntStr(N) \o " bookings, "
                               \o IntStr(M) \o " were canceled."
              /\ 2 * Abs(Hundredths(M, N) * N - 10000 * M) <= N
              /\ \A part \in {"cancellation rate", "%", "canceled", "found"} :
                    Contains(last.answer, part)

\* the rate of seven records, four of them canceled, reported from a subset
\* of two records, one of them canceled
C13_Witness ==
    /\ RateAnswered
    /\ Cardinality(AllRecords) = 7
    /\ Len(last.bookings) = 2
    /\ Cardinality({i \in 1..Len(last.bookings) : Rows[last.bookings[i].id].is_canceled}) = 1
    /\ last.answer = "I found that the overall cancellation rate is 57.14%. Out of 7 bookings, 4 were canceled."

\* what each record of a subset adds to the total revenue
Contribution(bookings) ==
    [i \in 1..Len(bookings) |->
        LET r == Rows[bookings[i].id]
        IN  IF r.is_canceled THEN 0
            ELSE r.adr * (r.stays_in_weekend_nights + r.stays_in_week_nights)]

\* the answer to a total-revenue question has been generated from a subset
\* with a record that is not canceled
RevenueAnswered ==
    /\ Generated
    /\ last.category = "revenue"
    /\ Contains(LowerOf[last.query], "total")
    /\ \E i \in 1..Len(last.bookings) : ~Rows[last.bookings[i].id].is_canceled

\* C14: the total of a revenue answer is the sum over the subset's records
\* that are not canceled of adr * (weekend nights + week nights); a record at
\* 100 for 3 nights and one at 150 for 2 nights give 600.00.
C14_RevenueOfActiveBookings ==
    RevenueAnswered =>
        /\ ~last.raised
        /\ last.answer = "The total revenue" \o TimePeriod(LowerOf[last.query])
                         \o " from the analyzed bookings is €"
                         \o IntStr(Sum(Contribution(last.bookings))) \o ".00."
        /\ Field(last.bookings, "id") = <<7, 2>>
              => /\ Contribution(last.bookings) = <<150 * 2, 100 * 3>>
                 /\ last.answer = "The total revenue from the analyzed bookings is €600.00."

\* a total reported from a subset of a canceled record worth 300 and a
\* record that is not canceled, also worth 300
C14_Witness ==
    /\ RevenueAnswered
    /\ Field(last.bookings, "id") = <<1, 2>>
    /\ Rows[1].is_canceled /\ Revenue(Rows[1]) > 0
    /\ last.answer = "The total revenue from the analyzed bookings is €"
                     \o IntStr(Revenue(Rows[2])) \o ".00."

\* the eight standard test questions with the category each is labelled
\* with (stay_duration and special_requests name the categories duration and
\* requests)
test_cases == <<
    [category |-> "cancellation", question |-> "What is the cancellation rate?"],
    [category |-> "lead_time",    question |-> "What is the average lead time for bookings?"],
    [category |-> "hotel",        question |-> "Which hotels have the most bookings?"],
    [category |-> "country",      question |-> "What countries do most guests come from?"],
    [category |-> "revenue",      question |-> "What is the total revenue for July 2017?"],
    [category |-> "duration",     question |-> "What is the average length of stay?"],
    [category |-> "family",       question |-> "How many bookings include children?"],
    [category |-> "requests",     question |-> "What is the average number of special requests?"] >>

\* C24: a search for one of the eight standard test questions runs under the
\* category the test case is labelled with, which is also the category whose
\* template renders the answer.
C24_TestQuestionsClassified ==
    (last.op = "search" /\ ~last.raised) =>
        \A i \in 1..Len(test_cases) :
            last.query = test_cases[i].question
               => /\ last.category = test_cases[i].category
                  /\ DeterminedCategoryOf[last.query] = test_cases[i].category

\* the order in which the category enumeration lists the eight categories
CategoryEnumeration == <<"cancellation", "lead_time", "revenue", "duration",
                         "family", "hotel", "country", "requests">>

\* the categories that share the highest nonzero keyword score of a question
TiedCategories(query) ==
    LET score(i) == KeywordScore(LowerOf[query], keyword_categories[i].keywords)
        labels   == 1..Len(keyword_categories)
    IN  {keyword_categories[i].category :
            i \in {i \in labels : score(i) > 0 /\ \A j \in labels : score(j) <= score(i)}}

\* C22: when two or more categories tie for the highest nonzero score, the
\* search runs under the tied category that the enumeration cancellation,
\* lead_time, revenue, duration, family, hotel, country, requests lists first.
C22_TieGoesToFirstEnumerated ==
    (last.op = "search" /\ ~last.raised /\ Cardinality(TiedCategories(last.query)) >= 2) =>
        \A i \in 1..Len(CategoryEnumeration) :
            (/\ CategoryEnumeration[i] \in TiedCategories(last.query)
             /\ \A j \in 1..(i - 1) : CategoryEnumeration[j] \notin TiedCategories(last.query))
            => last.category = CategoryEnumeration[i]

\* the history has been read
HistoryRead == last.op = "get_query_history"

\* a step that is a get_query_history call
ReadsHistory == counts'.reads # counts.reads

\* the ids of the records of a history page
PageIds(page) == [i \in 1..Len(page) |-> page[i].id]

\* what a page read with the given limit must hold: no more than limit
\* records, of strictly descending id, which are the most recently logged ones
\* and carry the question logged under their id
IsRecentPage(page, limit) ==
    /\ Len(page) = Min(limit, Len(history))
    /\ \A i \in 1..(Len(page) - 1) : page[i].id > page[i + 1].id
    /\ \A h \in 1..Len(history) :
          (\E i \in 1..Len(page) : page[i].id = history[h].id)
             <=> h > Len(history) - Len(page)
    /\ \A i \in 1..Len(page) : page[i].query = history[page[i].id].query_text

\* C21 as stated: get_query_history(limit) returns the at most limit most
\* recent records, newest first, and every record carries the answer that
\* the call it logs returned.
C21_HistoryHoldsReturnedAnswers ==
    [][ReadsHistory =>
          /\ IsRecentPage(last'.results, last'.k)
          /\ \A i \in 1..Len(last'.results) :
                last'.results[i].id \in DOMAIN returned
                   => last'.results[i].answer = Some(returned[last'.results[i].id])]_vars

\* C21, amended: the page holds the at most limit most recent records, newest
\* first; a record's answer is the answer the call returned if the call's
\* history update was committed, and is missing if the update failed or the
\* call raised.
C21_HistoryBestEffort ==
    [][ReadsHistory =>
          /\ IsRecentPage(last'.results, last'.k)
          /\ \A i \in 1..Len(last'.results) :
                LET record == last'.results[i]
                IN  /\ ~IsNone(record.answer)
                       => /\ record.id \in DOMAIN returned
                          /\ Val(record.answer) = returned[record.id]
                    /\ record.id \notin DOMAIN returned => IsNone(record.answer)
                    /\ IsNone(record.answer) <=> IsNone(history[record.id].response_text)]_vars

\* a page of two of three records: the newest belongs to a call that
\* returned an answer although its update failed, the other one holds the
\* answer its call returned
C21_Witness ==
    /\ HistoryRead
    /\ Len(history) = 3
    /\ PageIds(last.results) = <<3, 2>>
    /\ 3 \in DOMAIN returned /\ IsNone(last.results[1].answer)
    /\ 2 \in DOMAIN returned /\ last.results[2].answer = Some(returned[2])

\* steps that are a get_instance call and a reset_instance call
GetsInstance == counts'.gets # counts.gets

Resets == counts'.resets # counts.resets

\* C23: while _instance is set every get_instance returns it and constructs
\* nothing; with _instance None a get_instance that returns has constructed
\* one QASystem, never handed out or closed before, with an empty query
\* cache; reset_instance closes and forgets the instance and changes nothing
\* when there is none; _instance changes in no other way.
C23_OneInstanceBetweenResets ==
    /\ [][(GetsInstance /\ ~IsNone(singleton.instance))
            => /\ ~last'.raised
               /\ last'.instance = singleton.instance
               /\ singleton' = singleton
               /\ query_cache' = query_cache]_vars
    /\ [][(GetsInstance /\ IsNone(singleton.instance) /\ ~last'.raised)
            => /\ last'.instance = singleton'.instance
               /\ ~IsNone(singleton'.instance)
               /\ Val(singleton'.instance) > singleton.built
               /\ Val(singleton'.instance) \notin singleton.closed
               /\ singleton'.built = singleton.built + 1
               /\ query_cache' = <<>>]_vars
    /\ [][(GetsInstance /\ last'.raised) => singleton' = singleton]_vars
    /\ [][Resets
            => IF IsNone(singleton.instance)
               THEN UNCHANGED <<singleton, sys, storeVars, query_cache, history, db, snapshot>>
               ELSE /\ IsNone(singleton'.instance)
                    /\ singleton'.closed = singleton.closed \cup {Val(singleton.instance)}
                    /\ singleton'.built = singleton.built]_vars
    /\ [][singleton' # singleton => (GetsInstance \/ Resets)]_vars
    /\ [](~IsNone(singleton.instance) => Val(singleton.instance) \notin singleton.closed)

\* the third get_instance call of a run returns the second QASystem, with an
\* empty cache, after the first one answered a question and was closed by a
\* reset
C23_Witness ==
    /\ last.op = "get_instance" /\ ~last.raised
    /\ last.instance = Some(2)
    /\ singleton = [instance |-> Some(2), built |-> 2, closed |-> {1}]
    /\ counts.gets = 3
    /\ returned # <<>>
    /\ query_cache = <<>>

\* C25: a hotel search over the record set the store was constructed with,
\* holding at least k records, returns exactly k records, however the
\* records are distributed over the hotels.
C25_HotelSamplesSumToK ==
    (/\ last.op = "search" /\ ~last.raised
     /\ last.category = "hotel"
     /\ counts.creates = 0
     /\ Len(Val(booking_data)) >= last.k)
    => Len(last.results) = last.k

\* all the records of the record set with positive total nights, in
\* ascending order of total nights (records of equal nights in store order)
ByNights ==
    LET positive == SelectSeq(Val(booking_data), LAMBDA a : TotalNights(Row(a)) > 0)
    IN  Sorted([i \in 1..Len(positive) |->
                   [key |-> TotalNights(Row(positive[i])), item |-> positive[i]]], FALSE)

\* the ids of the first k records found at strides of max(1, len // k)
AtEvenStrides(records, k) ==
    LET step   == Max(1, Len(records) \div k)
        picked == SelectSeq([i \in 1..Len(records) |-> i], LAMBDA i : (i - 1) % step = 0)
    IN  [j \in 1..Min(k, Len(picked)) |-> records[picked[j]][2]]

\* C26: a duration search returns the records found at even strides in the
\* list of all records with positive total nights sorted by total nights;
\* the result is in ascending order of total nights and holds no record
\* without nights.
C26_StridesOverAllStays ==
    (last.op = "search" /\ ~last.raised /\ last.category = "duration" /\ last.k > 0) =>
        /\ Field(last.results, "id") = AtEvenStrides(ByNights, last.k)
        /\ \A i \in 1..Len(last.results) : TotalNights(Rows[last.results[i].id]) > 0
        /\ \A i \in 1..(Len(last.results) - 1) :
              TotalNights(Rows[last.results[i].id]) <= TotalNights(Rows[last.results[i + 1].id])

\* C28: no search returns the same source record twice: the booking ids of
\* the returned list are pairwise different, for every policy and every k.
C28_NoRecordTwice ==
    (last.op = "search" /\ ~last.raised) =>
        \A i, j \in 1..Len(last.results) :
            i # j => last.results[i].id # last.results[j].id

\* a hotel search that sampled from three hotel groups has returned five
\* different records
C28_Witness ==
    /\ last.op = "search" /\ ~last.raised
    /\ last.category = "hotel"
    /\ Len(Val(groupings.hotel)) = 3
    /\ Len(last.results) = 5
    /\ Cardinality(ResultIds(last.results)) = 5

\* the outcomes search(query, k) can have on the store as it stands
OutcomesOf(query, k) ==
    SearchOutcomes(query, k, Val(booking_data), Val(groupings.hotel),
                   Val(groupings.country), Val(groupings.requests), relevance)

\* a step in which search ran
Searches == counts'.searches # counts.searches

\* whenever one question of a pair is searched and the pair is classified
\* alike into one of the categories, the other question of the pair has the
\* same possible outcomes on the same store
SameRetrieval(categories) ==
    \A pair \in TimeVariants :
        ( /\ last'.op = "search"
          /\ last'.query \in {pair[1], pair[2]}
          /\ CategoryOf[pair[1]] = CategoryOf[pair[2]]
          /\ CategoryOf[pair[1]] \in categories )
        => OutcomesOf(pair[1], last'.k) = OutcomesOf(pair[2], last'.k)

DispatchedCategories ==
    {"cancellation", "lead_time", "revenue", "duration", "family", "hotel", "country", "requests"}

AllCategories == DispatchedCategories \cup {"time", "room", "booking", "general"}

\* C29 (as stated): for every category other than revenue, two questions that
\* classify alike and differ only in the month or year they name are retrieved
\* alike, no record being excluded by its arrival date.
C29_TimeFilterOnlyForRevenue ==
    [][Searches => SameRetrieval(AllCategories \ {"revenue"})]_vars

\* C29 (amended): the same for the seven other categories that have a policy
\* of their own; the default search has no time filter, but it matches the
\* year of the question as a token against the text of every record.
C29_TimeIgnoredByDispatchedPolicies ==
    [][Searches => SameRetrieval(DispatchedCategories \ {"revenue"})]_vars

\* a cancellation search for March 2016 has returned a booking that arrived in
\* another month
C29_Witness ==
    /\ last.op = "search"
    /\ ~last.raised
    /\ last.query = "Why do guests cancel in March 2016?"
    /\ \E i \in 1..Len(last.results) :
          ~MatchesTime(Rows[last.results[i].id], TimeInfoOf[last.query])

\* answer_question has returned the answer to a cancellation question that
\* does not ask for the rate
CancellationAnswered ==
    /\ last.op = "answer_question"
    /\ ~last.raised
    /\ last.category = "cancellation"
    /\ ~Contains(LowerOf[last.query], "rate")

\* the ids of the store's records, in store order
StoreIds == [i \in 1..Len(Val(booking_data)) |-> Row(Val(booking_data)[i]).id]

CanceledIds == SelectSeq(StoreIds, LAMBDA id : Rows[id].is_canceled)

ActiveIds == SelectSeq(StoreIds, LAMBDA id : ~Rows[id].is_canceled)

\* C30: answer_question (k = 5) for a cancellation question without "rate",
\* over a record set with at least 4 canceled and at least 1 non-canceled
\* record, returns the first 4 canceled records followed by the first
\* non-canceled record in store order, and the answer reports 4 canceled out
\* of 5 bookings (80.00%), whatever the rate of the record set is.
C30_FourOfFiveCanceled ==
    (CancellationAnswered /\ Len(CanceledIds) >= 4 /\ Len(ActiveIds) >= 1) =>
        /\ Field(last.bookings, "id") = SubSeq(CanceledIds, 1, 4) \o <<ActiveIds[1]>>
        /\ Contains(last.answer, "I found that out of 5 bookings, 4 were canceled (80.00%). ")

\* over the seven records, four of them canceled (57.14%), the call returned
\* records 1, 3, 4, 5 and 2 and the answer of 80.00%
C30_Witness ==
    /\ CancellationAnswered
    /\ ~last.cache_hit
    /\ StoreIds = <<1, 2, 3, 4, 5, 6, 7>>
    /\ Field(last.bookings, "id") = <<1, 3, 4, 5, 2>>
    /\ Contains(last.answer, "out of 5 bookings, 4 were canceled (80.00%)")

\* the same over a table that lost record 2: record 6 is the first
\* non-canceled one
C30_WitnessOtherSet ==
    /\ CancellationAnswered
    /\ StoreIds = <<1, 3, 4, 5, 6, 7>>
    /\ Field(last.bookings, "id") = <<1, 3, 4, 5, 6>>

\* the other thread has missed the cache for the question of the running
\* call and has already inserted its own entry
InsertedEarlier ==
    /\ suspended.query = call.query
    /\ suspended.pc \in {"update", "return"}
    /\ ~suspended.cache_hit

\* the running call, having missed the cache too, generates its answer and
\* inserts its entry
InsertsLater ==
    /\ call.pc = "generate"
    /\ call'.pc = "update"
    /\ suspended' = suspended
    /\ InsertedEarlier

\* both threads are past the cache for the same question, and both missed
BothMissed ==
    /\ call.pc \in {"update", "return"}
    /\ suspended.pc \in {"update", "return"}
    /\ call.query = suspended.query
    /\ ~call.cache_hit
    /\ ~suspended.cache_hit

\* C27: nothing excludes a second answer_question call between the cache
\* check and the cache insertion of a first: when two calls for the same
\* uncached question interleave there, each of them has run retrieval and
\* generation, the later insertion replaces the entry of the earlier one, and
\* each caller keeps the subset it retrieved itself.
C27_CheckThenInsertRace ==
    /\ [](BothMissed =>
             /\ runs[call.query].search >= 2
             /\ runs[call.query].generate >= 2
             /\ call.query \in DOMAIN query_cache
             /\ \/ query_cache[call.query].bookings = call.bookings
                \/ query_cache[call.query].bookings = suspended.bookings)
    /\ [][InsertsLater =>
             /\ call.query \in DOMAIN query_cache
             /\ query_cache[call.query].bookings = suspended.bookings
             /\ query_cache'[call.query].bookings = call.bookings
             /\ query_cache'[call.query].answer = call'.answer]_vars

\* two calls for the lead-time question both missed the cache; the first has
\* returned its subset, the second is about to return a different one, which
\* is the one the cache now holds
C27_Witness ==
    /\ last.op = "answer_question"
    /\ ~last.raised
    /\ ~last.cache_hit
    /\ last.query = "What is the average lead time for bookings?"
    /\ call.pc = "return"
    /\ call.query = last.query
    /\ ~call.cache_hit
    /\ call.query_id # last.query_id
    /\ Field(call.bookings, "id") # Field(last.bookings, "id")
    /\ query_cache[call.query].bookings = call.bookings
    /\ runs[call.query].search = 2

====
